---- MODULE Spec2Model ----
(***************************************************************************)
(* A model of the stock-report component: the paged export of sensor       *)
(* readings (export.py), their aggregation into time buckets, the import   *)
(* of the aggregated rows into the workbook template and the XML-level     *)
(* repair of the workbook (report.py, processor.py).                        *)
(*                                                                         *)
(* Time is counted in seconds since the Unix epoch; a reading's value and  *)
(* every aggregated value is an exact fraction [num, den].                 *)
(***************************************************************************)
EXTENDS Integers, Sequences, FiniteSets, TLC

VARIABLES
    pc,                 \* position of the operation being run
    client,             \* the query client: its dataset and its behaviour
    skip,               \* export_to_excel: $skip of the next request
    all_data,           \* export_to_excel: the records accumulated (line 112)
    aggregated_data,    \* export_to_excel: all_data as rebound at line 141
    requests,           \* the requests the query client has received
    bucket_period,      \* argument of _bucket_data
    bucket_method,      \* argument of _bucket_data
    include_keys_regex, \* argument of _bucket_data
    disk,               \* the files of the workbooks directory
    self,               \* the state fields of the component
    num_data_rows,      \* process_workbook: the row count handed to the repair
    sched,              \* the scheduled loops: processes, lock file, state file
    loop                \* the scheduled loop of one instance and its clock

vars == <<pc, client, skip, all_data, aggregated_data, requests, bucket_period, bucket_method,
          include_keys_regex, disk, self, num_data_rows, sched, loop>>

(***************************************************************************)
(* Generic helpers.                                                        *)
(***************************************************************************)
Range(s) == {s[i] : i \in DOMAIN s}

Min(a, b) == IF a <= b THEN a ELSE b

RECURSIVE GCD(_, _)
GCD(a, b) == IF b = 0 THEN a ELSE GCD(b, a % b)

Abs(a) == IF a < 0 THEN -a ELSE a

\* The number n / d (d > 0) in lowest terms.
Frac(n, d) ==
    LET g == GCD(Abs(n), d) IN [num |-> n \div g, den |-> d \div g]

Num(v) == [num |-> v, den |-> 1]

FracLeq(a, b) == a.num * b.den <= b.num * a.den

FracAdd(a, b) == Frac(a.num * b.den + b.num * a.den, a.den * b.den)

\* None of Python: an absent value.
None == "None"

(***************************************************************************)
(* re.compile(include_keys_regex).match(key): a pattern is a sequence of   *)
(* items, each a literal character or '.', optionally starred; a key is    *)
(* the sequence of its characters.  match anchors the pattern at position  *)
(* 0 of the key and lets the key continue after the matched part.          *)
(***************************************************************************)
Lit(c) == [any |-> FALSE, c |-> c, star |-> FALSE]
AnyStar == [any |-> TRUE, c |-> ".", star |-> TRUE]

ItemOk(item, ch) == item.any \/ item.c = ch

RECURSIVE MatchHere(_, _, _, _)
MatchHere(p, i, s, j) ==
    IF i > Len(p) THEN TRUE
    ELSE IF p[i].star
         THEN \/ MatchHere(p, i + 1, s, j)
              \/ /\ j <= Len(s)
                 /\ ItemOk(p[i], s[j])
                 /\ MatchHere(p, i, s, j + 1)
         ELSE /\ j <= Len(s)
              /\ ItemOk(p[i], s[j])
              /\ MatchHere(p, i + 1, s, j + 1)

\* An unanchored search, as re.search would do.
re_search(p, s) == \E j \in 1..(Len(s) + 1) : MatchHere(p, 1, s, j)

re_match(p, s) == MatchHere(p, 1, s, 1)

\* The field names of the readings and their spelling.
Chars ==
    [temp_raw     |-> <<"t", "e", "m", "p", "_", "r", "a", "w">>,
     y_calibrated |-> <<"y", "_", "c", "a", "l", "i", "b", "r", "a", "t", "e", "d">>]

FieldNames == DOMAIN Chars

\* The patterns: none (""), ".*_raw" and "_raw".
NoRegex == <<>>
RawRegex == <<AnyStar, Lit("_"), Lit("r"), Lit("a"), Lit("w")>>
BareRawRegex == <<Lit("_"), Lit("r"), Lit("a"), Lit("w")>>

\* Lines 309-311 and 324: a key passes when no pattern is given or the
\* pattern matches it.
KeyIncludedSearch(regex, key) == regex = NoRegex \/ re_search(regex, Chars[key])

KeyIncluded(regex, key) == regex = NoRegex \/ re_match(regex, Chars[key])

(***************************************************************************)
(* DataExporter._floor_timestamp and DataExporter._bucket_data.            *)
(***************************************************************************)
epoch == 0

floor_timestamp_trunc(ts, bucket_td) ==
    LET d == ts - epoch
        q == IF d >= 0 THEN d \div bucket_td ELSE -((-d) \div bucket_td)
    IN  epoch + q * bucket_td

floor_timestamp(ts, bucket_td) ==
    LET bucket_count == (ts - epoch) \div bucket_td
    IN  epoch + bucket_count * bucket_td

\* The keys of bucketed_data: the bucket starts of the rows of data.
BucketKeys(data, period) ==
    {floor_timestamp(data[i].time_received, period) : i \in DOMAIN data}

\* The position of the row of data that created the bucket (line 319).
FirstRowOf(data, period, bucket) ==
    LET at == {i \in DOMAIN data :
                 floor_timestamp(data[i].time_received, period) = bucket}
    IN  CHOOSE i \in at : \A j \in at : i <= j

\* bucketed_data[bucket]: for each key that passes the filter and occurs in
\* a row of the bucket, the values of the key in the order of the rows
\* (lines 315-330).
BucketReadings(data, period, regex, bucket) ==
    LET mine == SelectSeq(data,
                   LAMBDA row : floor_timestamp(row.time_received, period) = bucket)
        keys == {k \in FieldNames :
                   /\ KeyIncluded(regex, k)
                   /\ \E i \in DOMAIN mine : k \in DOMAIN mine[i].readings}
    IN  [k \in keys |->
           LET has == SelectSeq(mine, LAMBDA row : k \in DOMAIN row.readings)
           IN  [i \in DOMAIN has |-> has[i].readings[k]]]

\* max, min and sum of Python over a non-empty list of numbers.
py_max(values) ==
    CHOOSE v \in Range(values) : \A w \in Range(values) : FracLeq(w, v)

py_min(values) ==
    CHOOSE v \in Range(values) : \A w \in Range(values) : FracLeq(v, w)

RECURSIVE SumRange(_, _, _)
SumRange(values, lo, hi) ==
    IF lo > hi THEN Num(0)
    ELSE IF lo = hi THEN values[lo]
    ELSE LET mid == (lo + hi) \div 2
         IN  FracAdd(SumRange(values, lo, mid), SumRange(values, mid + 1, hi))

py_sum(values) == SumRange(values, 1, Len(values))

FracDiv(a, n) == Frac(a.num, a.den * n)

\* The k-th smallest value of the list, k counted from 0.
Sorted(values, k) ==
    CHOOSE v \in Range(values) :
        /\ Cardinality({i \in DOMAIN values : ~FracLeq(v, values[i])}) <= k
        /\ Cardinality({i \in DOMAIN values : FracLeq(values[i], v)}) > k

\* numpy.percentile(values, q) with its default linear interpolation.
np_percentile(values, q) ==
    LET n == Len(values)
        pos == q * (n - 1)
        lo == pos \div 100
        g == pos % 100
        hi == Min(lo + 1, n - 1)
        a == Sorted(values, lo)
        b == Sorted(values, hi)
    IN  Frac(a.num * b.den * (100 - g) + b.num * a.den * g, 100 * a.den * b.den)

Methods == {"max", "min", "avg", "first", "last", "pct95", "pct99"}

\* Lines 339-356, with the fallback of the last branch replaced by min.
AggregateFallbackMin(method, values) ==
    IF method = "max" THEN py_max(values)
    ELSE IF method = "min" THEN py_min(values)
    ELSE IF method = "avg" THEN FracDiv(py_sum(values), Len(values))
    ELSE IF method = "first" THEN values[1]
    ELSE IF method = "last" THEN values[Len(values)]
    ELSE IF method = "pct95" THEN np_percentile(values, 95)
    ELSE IF method = "pct99" THEN np_percentile(values, 99)
    ELSE py_min(values)

\* Lines 339-356, with first and last taken as the smallest and largest.
AggregateFirstMin(method, values) ==
    IF method = "max" THEN py_max(values)
    ELSE IF method = "min" THEN py_min(values)
    ELSE IF method = "avg" THEN FracDiv(py_sum(values), Len(values))
    ELSE IF method = "first" THEN py_min(values)
    ELSE IF method = "last" THEN py_max(values)
    ELSE IF method = "pct95" THEN np_percentile(values, 95)
    ELSE IF method = "pct99" THEN np_percentile(values, 99)
    ELSE py_max(values)

\* Lines 339-356: the aggregated value of one key of one bucket.
Aggregate(method, values) ==
    IF method = "max" THEN py_max(values)
    ELSE IF method = "min" THEN py_min(values)
    ELSE IF method = "avg" THEN FracDiv(py_sum(values), Len(values))
    ELSE IF method = "first" THEN values[1]
    ELSE IF method = "last" THEN values[Len(values)]
    ELSE IF method = "pct95" THEN np_percentile(values, 95)
    ELSE IF method = "pct99" THEN np_percentile(values, 99)
    ELSE py_max(values)

\* Lines 336-361: one aggregated row per bucket.
AggregatedRow(data, period, method, regex, bucket) ==
    LET readings == BucketReadings(data, period, regex, bucket)
    IN  [time_received |-> bucket,
         readings |-> [k \in DOMAIN readings |-> Aggregate(method, readings[k])]]

\* A list of pairs [k, x] ordered by k, as list.sort(key=...) leaves it (the
\* sort is stable: equal keys keep their order).
RECURSIVE SortByKey(_)
SortByKey(s) ==
    IF Len(s) <= 1 THEN s
    ELSE LET last == s[Len(s)]
             front == SortByKey(SubSeq(s, 1, Len(s) - 1))
             after == {i \in DOMAIN front : front[i].k > last.k}
             at == IF after = {} THEN Len(front) + 1
                   ELSE CHOOSE i \in after : \A j \in after : i <= j
         IN  SubSeq(front, 1, at - 1) \o <<last>> \o SubSeq(front, at, Len(front))

\* The elements of a set of numbers, ascending.
Ascending(S) ==
    [i \in 1..Cardinality(S) |->
        CHOOSE b \in S : Cardinality({c \in S : c < b}) = i - 1]

\* The keys of bucketed_data in the order in which the dictionary received
\* them (dictionaries keep insertion order).
InsertionOrder(data, period) ==
    LET keys == Ascending(BucketKeys(data, period))
        byFirst == SortByKey([i \in DOMAIN keys |->
                                [k |-> FirstRowOf(data, period, keys[i]),
                                 x |-> keys[i]]])
    IN  [i \in DOMAIN byFirst |-> byFirst[i].x]

\* aggregated_data before line 364: one row per key of bucketed_data.
UnsortedRows(data, period, method, regex) ==
    LET order == InsertionOrder(data, period)
    IN  [i \in DOMAIN order |-> AggregatedRow(data, period, method, regex, order[i])]

\* Lines 294-361: the rows without the sort of line 364.
bucket_data_unsorted(data, period, method, regex) ==
    UnsortedRows(data, period, method, regex)

\* Lines 294-365.
bucket_data(data, period, method, regex) ==
    LET rows == UnsortedRows(data, period, method, regex)
        sorted == SortByKey([i \in DOMAIN rows |->
                               [k |-> rows[i].time_received, x |-> rows[i]]])
    IN  [i \in DOMAIN sorted |-> sorted[i].x]

(***************************************************************************)
(* Worksheets.  A sheet is the sequence of its row elements in document    *)
(* order; a row carries its index r and its cell elements; a cell carries  *)
(* its column, at most one formula element f and at most one value element *)
(* v.  A cell value is tagged with its kind.                               *)
(***************************************************************************)
StrVal(s) == [kind |-> "str", num |-> 0, den |-> 1, s |-> s]
NumVal(f) == [kind |-> "num", num |-> f.num, den |-> f.den, s |-> ""]
TimeVal(t) == [kind |-> "datetime", num |-> t, den |-> 1, s |-> ""]
NoneVal == [kind |-> "None", num |-> 0, den |-> 1, s |-> ""]

Cell(c, value) == [c |-> c, f |-> <<>>, v |-> <<value>>]

Row(r, cells) == [r |-> r, cells |-> cells]

\* The code points of the characters the field names use.
Ord ==
    [a |-> 97, b |-> 98, c |-> 99, d |-> 100, e |-> 101, i |-> 105, l |-> 108,
     m |-> 109, p |-> 112, r |-> 114, t |-> 116, w |-> 119, x |-> 120, y |-> 121]
    @@ ("_" :> 95)

\* s < t for two strings of Python, given as their characters.
RECURSIVE StrLess(_, _, _)
StrLess(s, t, i) ==
    IF i > Len(t) THEN FALSE
    ELSE IF i > Len(s) THEN TRUE
    ELSE IF Ord[s[i]] # Ord[t[i]] THEN Ord[s[i]] < Ord[t[i]]
    ELSE StrLess(s, t, i + 1)

\* sorted(keys) for a set of field names.
sorted_keys(keys) ==
    [i \in 1..Cardinality(keys) |->
        CHOOSE k \in keys :
            Cardinality({j \in keys : StrLess(Chars[j], Chars[k], 1)}) = i - 1]

\* Lines 158-159: the bucket start, a UTC time, as the naive local time of
\* the exporter's timezone (America/New_York outside daylight saving time).
utcoffset == -18000

local_time(time_received) == time_received + utcoffset

\* Lines 144-171 with the columns taken from the fields of all the rows
\* instead of those of the first one.
raw_sheet_all_keys(rows) ==
    IF rows = <<>> THEN <<>>
    ELSE LET data_keys == sorted_keys(UNION {DOMAIN rows[i].readings : i \in DOMAIN rows})
             header == Row(1, <<Cell(1, StrVal("time_received"))>> \o
                              [j \in DOMAIN data_keys |->
                                 Cell(j + 1, StrVal(data_keys[j]))])
             data_row(i) ==
                 Row(i + 1,
                     <<Cell(1, TimeVal(local_time(rows[i].time_received)))>> \o
                     LET has == SelectSeq([j \in DOMAIN data_keys |-> j],
                                   LAMBDA j : data_keys[j] \in DOMAIN rows[i].readings)
                     IN  [n \in DOMAIN has |->
                            Cell(has[n] + 1, NumVal(rows[i].readings[data_keys[has[n]]]))])
         IN  <<header>> \o [i \in DOMAIN rows |-> data_row(i)]

\* Lines 144-171: the RAW sheet export_to_excel builds from the rows.  The
\* columns are those of the first row; nothing is written for no rows.
raw_sheet(rows) ==
    IF rows = <<>> THEN <<>>
    ELSE LET data_keys == sorted_keys(DOMAIN rows[1].readings)
             header == Row(1, <<Cell(1, StrVal("time_received"))>> \o
                              [j \in DOMAIN data_keys |->
                                 Cell(j + 1, StrVal(data_keys[j]))])
             data_row(i) ==
                 Row(i + 1,
                     <<Cell(1, TimeVal(local_time(rows[i].time_received)))>> \o
                     LET has == SelectSeq([j \in DOMAIN data_keys |-> j],
                                   LAMBDA j : data_keys[j] \in DOMAIN rows[i].readings)
                     IN  [n \in DOMAIN has |->
                            Cell(has[n] + 1, NumVal(rows[i].readings[data_keys[has[n]]]))])
         IN  <<header>> \o [i \in DOMAIN rows |-> data_row(i)]

\* ws.max_row and ws.max_column of a sheet openpyxl has loaded.
max_row(sheet) ==
    LET used == {sheet[i].r : i \in {j \in DOMAIN sheet : sheet[j].cells # <<>>}}
    IN  IF used = {} THEN 1 ELSE CHOOSE r \in used : \A q \in used : q <= r

max_column(sheet) ==
    LET used == UNION {{sheet[i].cells[j].c : j \in DOMAIN sheet[i].cells} :
                         i \in DOMAIN sheet}
    IN  IF used = {} THEN 1 ELSE CHOOSE c \in used : \A q \in used : q <= c

\* The value of the cell at (r, c), None when the sheet has no such cell.
cell_value(sheet, r, c) ==
    LET hit == UNION {{<<i, j>> : j \in {k \in DOMAIN sheet[i].cells :
                                          /\ sheet[i].cells[k].c = c
                                          /\ sheet[i].cells[k].v # <<>>}} :
                        i \in {n \in DOMAIN sheet : sheet[n].r = r}}
    IN  IF hit = {} THEN NoneVal
        ELSE LET at == CHOOSE h \in hit : TRUE IN sheet[at[1]].cells[at[2]].v[1]

\* list(sheet.iter_rows(values_only=True)): the header row included.
iter_rows_values_with_header(sheet) ==
    [i \in 1..max_row(sheet) |->
        [c \in 1..max_column(sheet) |-> cell_value(sheet, i, c)]]

\* list(sheet.iter_rows(min_row=2, values_only=True)).
iter_rows_values(sheet) ==
    [i \in 1..(max_row(sheet) - 1) |->
        [c \in 1..max_column(sheet) |-> cell_value(sheet, i + 1, c)]]

\* The sheet openpyxl saves for the cells (r, c) -> value it holds: the rows
\* ascending, a cell whose value is None written as no cell, a row all of
\* whose cells are None written as an empty row.
saved_sheet(rows, width, value) ==
    LET order == Ascending(rows)
    IN  [i \in DOMAIN order |->
           LET cols == SelectSeq([c \in 1..width |-> c],
                           LAMBDA c : value[order[i]][c] # NoneVal)
           IN  Row(order[i], [n \in DOMAIN cols |->
                                Cell(cols[n], value[order[i]][cols[n]])])]

\* Lines 777-787 of report.py, then the save of line 791: the Raw Import
\* sheet with the values below the header cleared and the data rows written
\* from row 2 on.
import_rows(sheet, data_rows) ==
    LET old_rows == {sheet[i].r : i \in {j \in DOMAIN sheet : sheet[j].cells # <<>>}}
                          \cup 2..max_row(sheet)
        new_rows == 2..(Len(data_rows) + 1)
        width == IF data_rows = <<>> THEN max_column(sheet)
                 ELSE IF Len(data_rows[1]) > max_column(sheet)
                      THEN Len(data_rows[1]) ELSE max_column(sheet)
        value == [r \in old_rows \cup new_rows |-> [c \in 1..width |->
                    IF r = 1 THEN cell_value(sheet, 1, c)
                    ELSE IF r \in new_rows /\ c <= Len(data_rows[r - 1])
                         THEN data_rows[r - 1][c]
                         ELSE NoneVal]]
    IN  saved_sheet(old_rows \cup new_rows, width, value)

(***************************************************************************)
(* The repair of the workbook package.  A package is the sheet map (sheet  *)
(* name -> worksheet part, as _get_sheet_mappings resolves it) and the     *)
(* worksheet parts (part name -> sheet).                                   *)
(***************************************************************************)
\* The range A2:X{n} and the formula text SORT('Raw Import'!A2:X{n},1,1).
range_to(n) == [from |-> "A2", col |-> "X", row |-> n]

sort_formula(n) ==
    [fn |-> "_xlfn._xlws.SORT", sheet |-> "Raw Import", range |-> range_to(n),
     args |-> <<1, 1>>]

\* Lines 443-451 of processor.py, with the rows removed while the loop of
\* line 443 still walks them: the row after a removed one is passed over.
RECURSIVE WalkRemoving(_, _, _)
WalkRemoving(sheet, i, n) ==
    IF i > Len(sheet) THEN <<>>
    ELSE IF sheet[i].r > n + 1
         THEN (IF i + 1 <= Len(sheet) THEN <<sheet[i + 1]>> ELSE <<>>)
                 \o WalkRemoving(sheet, i + 2, n)
         ELSE <<sheet[i]>> \o WalkRemoving(sheet, i + 1, n)

remove_excess_rows_while_iterating(sheet, n) == WalkRemoving(sheet, 1, n)

\* Lines 443-451 of processor.py, 946-961 of report.py, with the comparison
\* against num_data_rows instead of num_data_rows + 1.
remove_excess_rows_no_header(sheet, n) ==
    SelectSeq(sheet, LAMBDA row : ~(row.r > n))

\* Lines 443-451 of processor.py, 946-961 of report.py: the rows whose index
\* exceeds num_data_rows + 1 are removed.
remove_excess_rows(sheet, n) ==
    SelectSeq(sheet, LAMBDA row : ~(row.r > n + 1))

\* Lines 457-464: the position <<row, cell>> of cell A2, <<0, 0>> if none.
\* The search goes on after a hit, so the last row 2 holding an A2 decides.
find_a2(sheet) ==
    LET rows == {i \in DOMAIN sheet :
                   /\ sheet[i].r = 2
                   /\ \E j \in DOMAIN sheet[i].cells : sheet[i].cells[j].c = 1}
    IN  IF rows = {} THEN <<0, 0>>
        ELSE LET i == CHOOSE x \in rows : \A y \in rows : y <= x
                 cells == {j \in DOMAIN sheet[i].cells : sheet[i].cells[j].c = 1}
             IN  <<i, CHOOSE x \in cells : \A y \in cells : x <= y>>

\* Lines 467-484: the sheet with a cell A2, created at the end of the first
\* row 2, itself created at the end of the sheet when there is none.
with_a2(sheet) ==
    IF find_a2(sheet) # <<0, 0>> THEN sheet
    ELSE LET rows == {i \in DOMAIN sheet : sheet[i].r = 2}
             new_cell == [c |-> 1, f |-> <<>>, v |-> <<>>]
         IN  IF rows = {} THEN Append(sheet, Row(2, <<new_cell>>))
             ELSE LET i == CHOOSE x \in rows : \A y \in rows : x <= y
                  IN  [sheet EXCEPT ![i].cells = Append(@, new_cell)]

\* Lines 486-501: the formula and the value of cell A2.
set_sort_formula(cell, n) ==
    [cell EXCEPT !.f = <<[text |-> sort_formula(n + 1), t |-> "array",
                          ref |-> <<range_to(n + 1)>>]>>,
                 !.v = <<NumVal(Num(0))>>]

\* Lines 454-503 of processor.py.
update_sort_formula(sheet, n) ==
    LET made == with_a2(sheet)
        at == find_a2(made)
    IN  [made EXCEPT ![at[1]].cells[at[2]] = set_sort_formula(@, n)]

\* Line 921 of report.py and line 419 of processor.py: the sheets the loop
\* goes through.
report_sheets == {"Calibrated Values", "Bounded Calibrated", "Empty Shelf Tracker"}

processor_sheets == {"Sorted Raw", "Calibrated Values", "Bounded Calibrated"}

\* The loop without the test of lines 924-926 (420-422 of processor.py).
sheets_processed_unguarded(pkg, names) == names

\* Lines 924-926 of report.py, 420-422 of processor.py: a sheet the sheet
\* map does not hold is passed over.
sheets_processed(pkg, names) == {name \in names : name \in DOMAIN pkg.mapping}

\* Line 928 of report.py, 424 of processor.py: sheet_mappings[sheet_name]
\* raises KeyError for a name the sheet map does not hold.
lookup_errors(pkg, names) ==
    {name \in sheets_processed(pkg, names) : name \notin DOMAIN pkg.mapping}

\* The archive rebuilt from the parts the sheet map names instead of the
\* files of the directory (lines 973-978 of report.py).
fixed_parts_of_map(pkg, names, n, sorted_name) ==
    [part \in {pkg.mapping[name] : name \in DOMAIN pkg.mapping} |->
        LET hit == {name \in sheets_processed(pkg, names) \cap DOMAIN pkg.mapping :
                      pkg.mapping[name] = part}
        IN  IF hit = {} THEN pkg.parts[part]
            ELSE remove_excess_rows(pkg.parts[part], n)]

\* The parts of the package after the loop over the sheets to process, as
\* the walk of lines 973-978 of report.py (517-522 of processor.py) puts
\* them into the archive: every file of the directory under its path.
fixed_parts(pkg, names, n, sorted_name) ==
    [part \in DOMAIN pkg.parts |->
        LET hit == {name \in sheets_processed(pkg, names) \cap DOMAIN pkg.mapping :
                      pkg.mapping[name] = part}
        IN  IF hit = {} THEN pkg.parts[part]
            ELSE LET pruned == remove_excess_rows(pkg.parts[part], n)
                 IN  IF sorted_name \in hit THEN update_sort_formula(pruned, n)
                     ELSE pruned]

\* WorkbookProcessor.fix: the package written to the final path.
processor_fix(pkg, n) ==
    [pkg EXCEPT !.parts = fixed_parts(pkg, processor_sheets, n, "Sorted Raw")]

\* StockReportEmail._fix_workbook: the package written to the final path.
fix_workbook(pkg, n) ==
    [pkg EXCEPT !.parts = fixed_parts(pkg, report_sheets, n, "")]

(***************************************************************************)
(* The bounds of the model and the inputs drawn within them.               *)
(***************************************************************************)
\* The longest list of records given to _bucket_data on its own.
MaxRecords == 2

\* The dataset of the query client holds up to MaxPages full pages.
MaxPages == 3

\* The largest row index of a sheet given to the repair on its own, and the
\* largest row count.
MaxRow == 3

MaxN == 3

\* The days the scheduled loop is followed over, and the minutes of a day.
MaxDays == 2

Minutes == 3

\* The calls of reconfigure that are followed, one loop task each.
MaxTasks == 5

\* The seconds of the clock that name the directories of the repairs.
MaxSeconds == 2

\* time_received of the records given to _bucket_data, in seconds.
Times == {-1, 0, 1}

Periods == {2}

\* The readings a record can carry.
ReadingMaps ==
    {[temp_raw |-> Num(v)] : v \in {10, 20}}
      \cup {[y_calibrated |-> Num(30)]}
      \cup {[temp_raw |-> Num(20), y_calibrated |-> Num(30)]}

RecordLists ==
    UNION {{[i \in 1..n |-> [id |-> i, time_received |-> l[i].time_received,
                             readings |-> l[i].readings]] :
              l \in [1..n -> [time_received : Times, readings : ReadingMaps]]} :
             n \in 0..MaxRecords}

\* The values of bucket_method: the seven statistics and an unknown one.
MethodInputs == Methods \cup {"median"}

RegexInputs == {NoRegex, RawRegex, BareRawRegex}

\* The fields of the component before anything ran (__init__).
InitialSelf ==
    [workbook |-> "not_processed", report |-> "not_sent", data |-> None,
     last_processed_date |-> None, last_processed_time |-> None]

\* The fields of a component that processed and sent on an earlier day.
EarlierSelf ==
    [workbook |-> "processed", report |-> "sent", data |-> "earlier_path",
     last_processed_date |-> "earlier_date", last_processed_time |-> "earlier_time"]

\* The part names in the order in which the walk of the directory meets
\* them, here the order of their names.
sorted_parts(names) ==
    LET rank == ("sheet1.xml" :> 1) @@ ("sheet2.xml" :> 2) @@ ("sheet3.xml" :> 3)
                  @@ ("sheet4.xml" :> 4) @@ ("sheet5.xml" :> 5)
    IN  [i \in 1..Cardinality(names) |->
           CHOOSE x \in names :
               Cardinality({y \in names : rank[y] < rank[x]}) = i - 1]

\* The sheet map of a template with all its sheets.
FullMapping ==
    [n \in {"Raw Import", "Sorted Raw", "Calibrated Values", "Bounded Calibrated",
            "Empty Shelf Tracker"} |->
        CASE n = "Raw Import" -> "sheet1.xml"
          [] n = "Sorted Raw" -> "sheet2.xml"
          [] n = "Calibrated Values" -> "sheet3.xml"
          [] n = "Bounded Calibrated" -> "sheet4.xml"
          [] n = "Empty Shelf Tracker" -> "sheet5.xml"]

Restrict(f, S) == [x \in S |-> f[x]]

\* A sheet with one row per index of the layout, in the order of the layout;
\* the content of a row tells its place in the template and its index.
GenericSheet(layout) ==
    [i \in DOMAIN layout |->
        Row(layout[i], <<Cell(1, NumVal(Num(100 * i + layout[i])))>>)]

\* A 'Sorted Raw' sheet: its row 2 holds no cell A2 ("none"), an A2 without
\* formula ("empty") or an A2 whose formula spans the rows up to `stale`.
SortedSheet(layout, anchor, stale) ==
    [i \in DOMAIN layout |->
        IF layout[i] # 2 THEN GenericSheet(layout)[i]
        ELSE Row(2,
               IF anchor = "none" THEN <<Cell(2, NumVal(Num(7)))>>
               ELSE IF anchor = "empty"
                    THEN <<[c |-> 1, f |-> <<>>, v |-> <<>>], Cell(2, NumVal(Num(7)))>>
                    ELSE <<[c |-> 1,
                            f |-> <<[text |-> sort_formula(stale), t |-> "array",
                                     ref |-> <<range_to(stale)>>]>>,
                            v |-> <<NumVal(Num(5))>>],
                           Cell(2, NumVal(Num(7)))>>)]

\* The sequences of distinct row indices up to MaxRow, in any order.
RowLayouts ==
    UNION {{l \in [1..k -> 1..MaxRow] : \A i, j \in 1..k : l[i] = l[j] => i = j} :
             k \in 0..MaxRow}

Reverse(s) == [i \in DOMAIN s |-> s[Len(s) + 1 - i]]

\* The packages given to the repair on its own.
PackageInputs ==
    {[mapping |-> Restrict(FullMapping, DOMAIN FullMapping \ absent),
      parts |-> ("sheet1.xml" :> GenericSheet(<<1, 2>>))
                 @@ ("sheet2.xml" :> SortedSheet(layout, anchor, MaxRow + 1))
                 @@ ("sheet3.xml" :> GenericSheet(layout))
                 @@ ("sheet4.xml" :> GenericSheet(Reverse(layout)))
                 @@ ("sheet5.xml" :> GenericSheet(layout))] :
       layout \in RowLayouts,
       anchor \in {"none", "empty", "stale"},
       absent \in {{}, {"Empty Shelf Tracker"}, {"Sorted Raw"},
                   report_sheets \cup processor_sheets}}

\* The templates process_workbook can find: well-formed workbooks whose
\* sheets hold the rows 1..k, some without one of the sheets.
TemplateInputs ==
    {[mapping |-> Restrict(FullMapping, DOMAIN FullMapping \ absent),
      parts |-> ("sheet1.xml" :> GenericSheet([i \in 1..k |-> i]))
                 @@ ("sheet2.xml" :> SortedSheet([i \in 1..k |-> i], "stale", k))
                 @@ ("sheet3.xml" :> GenericSheet([i \in 1..k |-> i]))
                 @@ ("sheet4.xml" :> GenericSheet([i \in 1..k |-> i]))
                 @@ ("sheet5.xml" :> GenericSheet([i \in 1..k |-> i]))] :
       k \in {1, MaxRow + 3},
       absent \in {{}, {"Empty Shelf Tracker"}, {"Raw Import"}}}

\* A raw_export.xlsx left by an earlier run.
StaleRaw == <<Row(1, <<Cell(1, StrVal("time_received"))>>),
              Row(2, <<Cell(1, TimeVal(0))>>)>>

(***************************************************************************)
(* The query client.  Its store holds, in the order of time_received, one  *)
(* record before start_time, n records within [start_time, end_time) and   *)
(* one record at end_time.                                                 *)
(***************************************************************************)
\* Lines 114 of export.py: the page size.
limit == 1000

\* Lines 660-661 of report.py: the store hours of the target day, here the
\* day of the epoch, a Thursday (hours_thu: 07:00 to 19:30 local time), in
\* seconds of UTC.
start_time == 43200

end_time == 88200

\* Line 672 of report.py: PT5M.
PT5M == 300

StoredRecord(i) ==
    [id |-> i,
     time_received |-> start_time + (i - 1) \div 4,
     readings |-> IF i % 2 = 0
                  THEN [temp_raw |-> Num(10 + 10 * (i % 3)), y_calibrated |-> Num(30)]
                  ELSE [temp_raw |-> Num(10 + 10 * (i % 3))]]

Store(n) ==
    <<[id |-> 0, time_received |-> start_time - 1, readings |-> [temp_raw |-> Num(10)]]>>
      \o [i \in 1..n |-> StoredRecord(i)]
      \o <<[id |-> n + 1, time_received |-> end_time, readings |-> [temp_raw |-> Num(10)]]>>

DataSizes ==
    {s \in {k * limit + d : k \in 0..MaxPages, d \in {-1, 0, 1}} : s >= 0}

\* Lines 97-104, with $lte in the place of $lt.
match_predicate_lte(row) ==
    start_time <= row.time_received /\ row.time_received <= end_time

\* Lines 97-104: the $match stage of the pipeline.
match_predicate(row) ==
    start_time <= row.time_received /\ row.time_received < end_time

\* The answer of a client that honours the pipeline of lines 106-122: the
\* matching records in the order of time_received, from $skip on, at most
\* $limit of them.
honest_page(n, skip_, limit_) ==
    LET matched == SelectSeq(Store(n), match_predicate)
    IN  SubSeq(matched, skip_ + 1, Min(skip_ + limit_, Len(matched)))

\* The answers the client can give: the honest one and, for a client that
\* returns partial pages, the honest one without its last record.
Responses(c, skip_, limit_) ==
    LET page == honest_page(c.n, skip_, limit_)
    IN  {page} \cup IF c.short /\ page # <<>>
                    THEN {SubSeq(page, 1, Len(page) - 1)} ELSE {}

(***************************************************************************)
(* StockReportEmail.process_workbook and DataExporter.export_to_excel.     *)
(***************************************************************************)
\* Lines 128 and 134, with the test of line 134 left out.
loop_ends_when_empty(batch_len) == batch_len = 0

\* Lines 128 and 134: the page that ends the loop.
loop_ends(batch_len) == batch_len = 0 \/ batch_len < limit

\* Line 137.
next_skip(skip_) == skip_ + limit

\* Lines 713-717 with the output path forgotten when the run fails.
FailedForgetting(status) ==
    /\ self' = [self EXCEPT !.workbook = status, !.data = None]
    /\ pc' = "done"

\* Lines 649-651 and 713-717: the run ends with an error status, which is
\* saved.
Failed(status) ==
    /\ self' = [self EXCEPT !.workbook = status]
    /\ pc' = "done"

\* Lines 636-663 without the test of lines 647-651.
StartProcessUnchecked ==
    /\ pc = "start"
    /\ pc' = "connect"
    /\ UNCHANGED <<client, skip, all_data, aggregated_data, requests, bucket_period,
                   bucket_method, include_keys_regex, disk, self, num_data_rows,
                   sched, loop>>

\* Lines 636-663: the template is looked for.
StartProcess ==
    /\ pc = "start"
    /\ IF disk.template = <<>>
       THEN Failed("error: missing template")
       ELSE pc' = "connect" /\ self' = self
    /\ UNCHANGED <<client, skip, all_data, aggregated_data, requests, bucket_period,
                   bucket_method, include_keys_regex, disk, num_data_rows, sched, loop>>

\* Line 94 of export.py.
Connect ==
    /\ pc = "connect"
    /\ pc' = "fetch"
    /\ UNCHANGED <<client, skip, all_data, aggregated_data, requests, bucket_period,
                   bucket_method, include_keys_regex, disk, self, num_data_rows, sched,
                   loop>>

\* Lines 116-137: one turn of the page loop, the query answered.
FetchPage ==
    /\ pc = "fetch"
    /\ \E batch \in Responses(client, skip, limit) :
          /\ requests' = Append(requests, [skip |-> skip, limit |-> limit,
                                           returned |-> Len(batch)])
          /\ all_data' = all_data \o batch
          /\ IF loop_ends(Len(batch))
             THEN pc' = "export" /\ skip' = skip
             ELSE pc' = "fetch" /\ skip' = next_skip(skip)
    /\ UNCHANGED <<client, aggregated_data, bucket_period, bucket_method,
                   include_keys_regex, disk, self, num_data_rows, sched, loop>>

\* Line 125 raises and the loop goes on to write what it has.
FetchRaisesSwallowed ==
    /\ pc = "fetch"
    /\ requests' = Append(requests, [skip |-> skip, limit |-> limit, returned |-> -1])
    /\ pc' = "export"
    /\ UNCHANGED <<client, skip, all_data, aggregated_data, bucket_period,
                   bucket_method, include_keys_regex, disk, self, num_data_rows, sched,
                   loop>>

\* Line 125 raises: the client is closed (line 180) and the error reaches
\* lines 713-717 of process_workbook.
FetchRaises ==
    /\ pc = "fetch"
    /\ requests' = Append(requests, [skip |-> skip, limit |-> limit, returned |-> -1])
    /\ Failed("error: query failed")
    /\ UNCHANGED <<client, skip, all_data, aggregated_data, bucket_period,
                   bucket_method, include_keys_regex, disk, num_data_rows, sched, loop>>

\* Lines 139-177: the rows are bucketed and raw_export.xlsx is written.
ExportWrite ==
    /\ pc = "export"
    /\ aggregated_data' =
          bucket_data(all_data, bucket_period, bucket_method, include_keys_regex)
    /\ disk' = [disk EXCEPT !.raw_export = <<raw_sheet(aggregated_data')>>]
    /\ pc' = "copy"
    /\ UNCHANGED <<client, skip, all_data, requests, bucket_period, bucket_method,
                   include_keys_regex, self, num_data_rows, sched, loop>>

\* Line 689: the template is copied to the WIP file.
CopyTemplate ==
    /\ pc = "copy"
    /\ disk' = [disk EXCEPT !.wip = disk.template]
    /\ pc' = "import"
    /\ UNCHANGED <<client, skip, all_data, aggregated_data, requests, bucket_period,
                   bucket_method, include_keys_regex, self, num_data_rows, sched, loop>>

\* Line 692 and _update_raw_import_sheet: the data rows of the raw export
\* are written to the Raw Import sheet of the WIP file.
UpdateRawImport ==
    /\ pc = "import"
    /\ LET data_rows == iter_rows_values(disk.raw_export[1])
           wip == disk.wip[1]
       IN  IF "Raw Import" \notin DOMAIN wip.mapping
           THEN /\ Failed("error: Raw Import sheet not found in template")
                /\ UNCHANGED <<disk, num_data_rows>>
           ELSE /\ disk' = [disk EXCEPT !.wip =
                     <<[wip EXCEPT !.parts[wip.mapping["Raw Import"]] =
                           import_rows(@, data_rows)]>>]
                /\ num_data_rows' = Len(data_rows)
                /\ pc' = "fix"
                /\ self' = self
    /\ UNCHANGED <<client, skip, all_data, aggregated_data, requests, bucket_period,
                   bucket_method, include_keys_regex, sched, loop>>

\* Line 696: _fix_workbook writes the final file from the WIP file.
FixWorkbook ==
    /\ pc = "fix"
    /\ IF lookup_errors(disk.wip[1], report_sheets) # {}
       THEN Failed("error: KeyError") /\ disk' = disk
       ELSE /\ disk' = [disk EXCEPT !.final =
                          <<fix_workbook(disk.wip[1], num_data_rows)>>]
            /\ pc' = "finish"
            /\ self' = self
    /\ UNCHANGED <<client, skip, all_data, aggregated_data, requests, bucket_period,
                   bucket_method, include_keys_regex, num_data_rows, sched, loop>>

\* Lines 971-978: what is at the final path when the k-th zip_out.write
\* raises: ZipFile(final_path, "w") has created the file and the walk has
\* written the files before the k-th one into it.
partial_archive(pkg, k) ==
    LET names == sorted_parts(DOMAIN pkg.parts)
    IN  <<[pkg EXCEPT !.parts = Restrict(pkg.parts, {names[i] : i \in 1..(k - 1)})]>>

\* Line 696 when the writing of the archive raises (lines 973-978): the
\* error passes through lines 982-990 and reaches lines 713-717.
FixFailsRepackaging ==
    /\ pc = "fix"
    /\ LET pkg == fix_workbook(disk.wip[1], num_data_rows)
       IN  \E k \in 1..Cardinality(DOMAIN pkg.parts) :
               disk' = [disk EXCEPT !.final = partial_archive(pkg, k)]
    /\ Failed("error: exception")
    /\ UNCHANGED <<client, skip, all_data, aggregated_data, requests, bucket_period,
                   bucket_method, include_keys_regex, num_data_rows, sched, loop>>

\* Lines 699-711: the WIP file is removed and the state updated and saved.
Finish ==
    /\ pc = "finish"
    /\ disk' = [disk EXCEPT !.wip = <<>>]
    /\ self' = [self EXCEPT !.data = "final_path", !.last_processed_date = "date_str",
                            !.last_processed_time = "timestamp",
                            !.workbook = "processed"]
    /\ pc' = "done"
    /\ UNCHANGED <<client, skip, all_data, aggregated_data, requests, bucket_period,
                   bucket_method, include_keys_regex, num_data_rows, sched, loop>>

\* Lines 713-717 with a removal of the WIP file added to the handler.
RaiseCleaningUp ==
    /\ pc \in {"connect", "export", "copy", "import", "fix", "finish"}
    /\ Failed("error: exception")
    /\ disk' = [disk EXCEPT !.wip = <<>>]
    /\ UNCHANGED <<client, skip, all_data, aggregated_data, requests, bucket_period,
                   bucket_method, include_keys_regex, num_data_rows, sched, loop>>

\* Lines 713-717: an exception of the stage about to run (the connection,
\* the save of the raw export, the copy, the import, the repair, the removal
\* of the WIP file).
Raise ==
    /\ pc \in {"connect", "export", "copy", "import", "fix", "finish"}
    /\ Failed("error: exception")
    /\ UNCHANGED <<client, skip, all_data, aggregated_data, requests, bucket_period,
                   bucket_method, include_keys_regex, disk, num_data_rows, sched, loop>>

\* WorkbookProcessor.fix: the final file is written from the WIP file.
ProcessorFix ==
    /\ pc = "fix"
    /\ IF lookup_errors(disk.wip[1], processor_sheets) # {}
       THEN pc' = "processor_raised" /\ disk' = disk
       ELSE /\ disk' = [disk EXCEPT !.final =
                          <<processor_fix(disk.wip[1], num_data_rows)>>]
            /\ pc' = "processor_fixed"
    /\ UNCHANGED <<client, skip, all_data, aggregated_data, requests, bucket_period,
                   bucket_method, include_keys_regex, self, num_data_rows, sched, loop>>

(***************************************************************************)
(* The scheduled loop, the lock file and the state file (report.py).       *)
(***************************************************************************)
\* The processes that host an instance of the component.
Procs == {1, 2}

\* Before any scheduled loop is looked at.
NoSchedule == <<>>

NoLoop == <<>>

\* The persisted fields as __init__ sets them (lines 147-153).
DefaultState ==
    [last_processed_date |-> None, last_sent_date |-> None, data |-> None,
     report |-> "not_sent", workbook |-> "not_processed"]

\* A state file written on an earlier day.
EarlierState ==
    [last_processed_date |-> "yesterday", last_sent_date |-> "yesterday",
     data |-> "final_yesterday", report |-> "sent", workbook |-> "processed"]

\* today_str of lines 456-457.
today_str == "today"

\* Line 231 with the name of the state file itself: the file is written in
\* place.
temp_file_in_place == "state_file"

\* Line 231: the file _save_state writes before it renames it.
temp_file == "temp_file"

\* fasteners.InterProcessLock.acquire without waiting, or at the end of its
\* timeout: `kind` is the locking of the platform.  A lock of fcntl.lockf
\* belongs to the process, so a second lock object of the process that holds
\* it acquires it too; a lock of msvcrt.locking belongs to the handle.
can_acquire(kind, lock, p) ==
    IF lock = <<>> THEN TRUE ELSE kind = "fcntl" /\ lock[1].proc = p

\* The lock file once the lock object h of process p has acquired it.
acquired(p, h) == <<[proc |-> p, handle |-> h]>>

\* fasteners.InterProcessLock.release by the lock object h of process p:
\* the unlock of fcntl.lockf drops the lock of the process, whichever lock
\* object took it; the unlock of msvcrt.locking drops the lock of the handle.
released(kind, lock, p, h) ==
    IF lock # <<>> /\ lock[1].proc = p /\ (kind = "fcntl" \/ lock[1].handle = h)
    THEN <<>>
    ELSE lock

\* The text of a state file: the fields, all of them written or not.
written(fields, whole) == <<[whole |-> whole, fields |-> fields]>>

\* os.replace (line 236): the source takes the place of the destination in
\* one step.
os_replace(files, src, dst) ==
    IF src = dst
    THEN files
    ELSE [files EXCEPT ![dst] = files[src], ![src] = <<>>]

\* The variables of process_workbook, which the loop leaves alone here.
workbook_vars ==
    <<pc, client, skip, all_data, aggregated_data, requests, bucket_period,
      bucket_method, include_keys_regex, disk, self, num_data_rows>>

\* Process p moves to `to`, with `fields` as the fields of its instance.
Goes(p, to, fields, event) ==
    [sched.proc EXCEPT ![p] = [pc |-> to, state |-> fields, event |-> event]]

\* Lines 147-177: an instance is constructed; without a state file it starts
\* fresh.
Construct(p) ==
    /\ sched.proc[p].pc = "none"
    /\ sched' = [sched EXCEPT
                   !.proc = Goes(p, IF sched.files.state_file = <<>>
                                    THEN "constructed" ELSE "load_acquire",
                                 DefaultState, "fresh")]
    /\ UNCHANGED <<workbook_vars, loop>>

\* Lines 179-183: _load_state acquires the lock, at once or after a wait.
LoadAcquire(p) ==
    /\ sched.proc[p].pc = "load_acquire"
    /\ can_acquire(sched.kind, sched.lock, p)
    /\ sched' = [sched EXCEPT
                   !.lock = acquired(p, "state"),
                   !.proc = Goes(p, "load_read", DefaultState, "none")]
    /\ UNCHANGED <<workbook_vars, loop>>

\* Lines 183 and 203-204: the lock is held for the whole of the timeout;
\* nothing is read.
LoadTimesOut(p) ==
    /\ sched.proc[p].pc = "load_acquire"
    /\ ~can_acquire(sched.kind, sched.lock, p)
    /\ sched' = [sched EXCEPT !.proc = Goes(p, "constructed", DefaultState, "unread")]
    /\ UNCHANGED <<workbook_vars, loop>>

\* Lines 185-198: the file is read; a text that is not whole does not parse
\* and the fields stay as they are (lines 205-206).
LoadRead(p) ==
    /\ sched.proc[p].pc = "load_read"
    /\ LET file == sched.files.state_file
       IN  sched' = [sched EXCEPT
                       !.proc = IF file # <<>> /\ file[1].whole
                                THEN Goes(p, "load_release", file[1].fields, "loaded")
                                ELSE Goes(p, "load_release", DefaultState, "unread")]
    /\ UNCHANGED <<workbook_vars, loop>>

\* Lines 201-202: _load_state releases the lock.
LoadRelease(p) ==
    /\ sched.proc[p].pc = "load_release"
    /\ sched' = [sched EXCEPT
                   !.lock = released(sched.kind, sched.lock, p, "state"),
                   !.proc = Goes(p, "constructed", sched.proc[p].state,
                                 sched.proc[p].event)]
    /\ UNCHANGED <<workbook_vars, loop>>

\* Lines 407-413: run_scheduled_loop tries the lock once and returns when it
\* is not acquired.
StartLoop(p) ==
    /\ sched.proc[p].pc \in {"constructed", "stopped"}
    /\ IF can_acquire(sched.kind, sched.lock, p)
       THEN sched' = [sched EXCEPT
                        !.lock = acquired(p, "loop"),
                        !.proc = Goes(p, "looping", sched.proc[p].state, "none")]
       ELSE sched' = [sched EXCEPT
                        !.proc = Goes(p, "returned", sched.proc[p].state, "none")]
    /\ UNCHANGED <<workbook_vars, loop>>

\* Lines 464-469 and 696-709: process_workbook succeeds and saves.
ProcessSucceeds(p) ==
    /\ sched.proc[p].pc = "looping"
    /\ sched.proc[p].state.last_processed_date # today_str
    /\ sched' = [sched EXCEPT
                   !.proc = Goes(p, "save_acquire",
                                 [sched.proc[p].state EXCEPT
                                    !.last_processed_date = today_str,
                                    !.data = "final_today",
                                    !.workbook = "processed"],
                                 "processed")]
    /\ UNCHANGED <<workbook_vars, loop>>

\* Lines 464-469 and 713-717: process_workbook fails and saves.
ProcessFails(p) ==
    /\ sched.proc[p].pc = "looping"
    /\ sched.proc[p].state.last_processed_date # today_str
    /\ sched' = [sched EXCEPT
                   !.proc = Goes(p, "save_acquire",
                                 [sched.proc[p].state EXCEPT
                                    !.workbook = "error: exception"],
                                 "failed")]
    /\ UNCHANGED <<workbook_vars, loop>>

\* Lines 471-476 and 1010-1045: send_processed_workbook.  Without a workbook
\* (no path, or no file at the path) the status is saved; a workbook sent
\* is recorded and saved; an error in sending is recorded and not saved.
SendWorkbook(p) ==
    /\ sched.proc[p].pc = "looping"
    /\ sched.proc[p].state.last_sent_date # today_str
    /\ LET fields == sched.proc[p].state
       IN  \/ sched' = [sched EXCEPT
                        !.proc = Goes(p, "save_acquire",
                                      [fields EXCEPT
                                         !.report = "error: no processed workbook"],
                                      "failed")]
           \/ /\ fields.data # None
              /\ sched' = [sched EXCEPT
                             !.proc = Goes(p, "save_acquire",
                                           [fields EXCEPT
                                              !.last_sent_date = today_str,
                                              !.report = "sent"],
                                           "sent")]
           \/ /\ fields.data # None
              /\ sched' = [sched EXCEPT
                             !.proc = Goes(p, "looping",
                                           [fields EXCEPT !.report = "error: exception"],
                                           "none")]
    /\ UNCHANGED <<workbook_vars, loop>>

\* Lines 213-217: _save_state acquires the lock, at once or after a wait.
SaveAcquire(p) ==
    /\ sched.proc[p].pc = "save_acquire"
    /\ can_acquire(sched.kind, sched.lock, p)
    /\ sched' = [sched EXCEPT
                   !.lock = acquired(p, "state"),
                   !.proc = Goes(p, "save_open", sched.proc[p].state,
                                 sched.proc[p].event)]
    /\ UNCHANGED <<workbook_vars, loop>>

\* Lines 217 and 241-242: the lock is held for the whole of the timeout;
\* nothing is written.
SaveTimesOut(p) ==
    /\ sched.proc[p].pc = "save_acquire"
    /\ ~can_acquire(sched.kind, sched.lock, p)
    /\ sched' = [sched EXCEPT
                   !.proc = Goes(p, "after_save", sched.proc[p].state,
                                 sched.proc[p].event)]
    /\ UNCHANGED <<workbook_vars, loop>>

\* Lines 231-232: the temporary file is opened for writing and part of the
\* text is in it.
SaveOpen(p) ==
    /\ sched.proc[p].pc = "save_open"
    /\ sched' = [sched EXCEPT
                   !.files[temp_file] = written(sched.proc[p].state, FALSE),
                   !.proc = Goes(p, "save_write", sched.proc[p].state,
                                 sched.proc[p].event)]
    /\ UNCHANGED <<workbook_vars, loop>>

\* Lines 232-233: the rest of the text is written and the file closed.
SaveWrite(p) ==
    /\ sched.proc[p].pc = "save_write"
    /\ sched' = [sched EXCEPT
                   !.files[temp_file] = written(sched.proc[p].state, TRUE),
                   !.proc = Goes(p, "save_replace", sched.proc[p].state,
                                 sched.proc[p].event)]
    /\ UNCHANGED <<workbook_vars, loop>>

\* Line 236: the temporary file is renamed to the state file.
SaveReplace(p) ==
    /\ sched.proc[p].pc = "save_replace"
    /\ sched' = [sched EXCEPT
                   !.files = os_replace(sched.files, temp_file, "state_file"),
                   !.proc = Goes(p, "save_release", sched.proc[p].state,
                                 sched.proc[p].event)]
    /\ UNCHANGED <<workbook_vars, loop>>

\* Lines 239-240: _save_state releases the lock.
SaveRelease(p) ==
    /\ sched.proc[p].pc = "save_release"
    /\ sched' = [sched EXCEPT
                   !.lock = released(sched.kind, sched.lock, p, "state"),
                   !.proc = Goes(p, "after_save", sched.proc[p].state,
                                 sched.proc[p].event)]
    /\ UNCHANGED <<workbook_vars, loop>>

\* Line 415: the loop goes on to its next sleep.
Resume(p) ==
    /\ sched.proc[p].pc = "after_save"
    /\ sched' = [sched EXCEPT
                   !.proc = Goes(p, "looping", sched.proc[p].state, "none")]
    /\ UNCHANGED <<workbook_vars, loop>>

\* Lines 478-485: the loop is cancelled in its sleep, or fails, and releases
\* its lock.
StopLoop(p) ==
    /\ sched.proc[p].pc = "looping"
    /\ sched' = [sched EXCEPT
                   !.lock = released(sched.kind, sched.lock, p, "loop"),
                   !.proc = Goes(p, "stopped", sched.proc[p].state, "none")]
    /\ UNCHANGED <<workbook_vars, loop>>

\* The process is killed at any point: its locks go with it, its files
\* stay.
Crash(p) ==
    /\ sched.proc[p].pc # "none"
    /\ sched' = [sched EXCEPT
                   !.lock = IF sched.lock # <<>> /\ sched.lock[1].proc = p
                            THEN <<>> ELSE sched.lock,
                   !.proc = Goes(p, "none", DefaultState, "none")]
    /\ UNCHANGED <<workbook_vars, loop>>

(***************************************************************************)
(* The scheduled loop of one instance and its clock (report.py).  An       *)
(* instant is a day, a minute of the day and whether the minute has just   *)
(* begun (HH:MM:00.000000) or is under way; a date is its day; the path of *)
(* a final workbook is the date in its name.  An optional value is a       *)
(* sequence of length 0 or 1.                                              *)
(***************************************************************************)
Instants == 0..(MaxDays * Minutes * 2 - 1)

DayOf(t) == (t \div (2 * Minutes)) + 1

MinuteOf(t) == (t % (2 * Minutes)) \div 2

\* datetime.combine(day, HH:MM): the beginning of a minute of a day.
At(day, minute) == ((day - 1) * Minutes + minute) * 2

\* now.strftime("%Y%m%d") of lines 456-457.
date_of(t) == DayOf(t)

\* Lines 362-376 without the step to the next day of lines 366-367.
get_next_time_today(now, minute) == At(DayOf(now), minute)

\* Lines 362-376: _get_next_process_time and _get_next_send_time.
get_next_time(now, minute) ==
    IF now > At(DayOf(now), minute)
    THEN At(DayOf(now) + 1, minute)
    ELSE At(DayOf(now), minute)

\* Lines 378-403: _get_next_capture_time, for capture times none of which
\* is past by more than two days.
get_next_capture_time(now, capture_times) ==
    LET future == {t \in {At(d, m) : d \in {DayOf(now), DayOf(now) + 1},
                                     m \in capture_times} : t > now}
    IN  CHOOSE t \in future : \A u \in future : t <= u

\* The instants a step that began at t0 can end at: later in the same
\* minute, or in the next one.
elapsed(t0) == {t \in Instants : t0 < t /\ t <= t0 + 2}

\* Lines 453-457: the instants a sleep until the target can end at; a sleep
\* until a past instant ends at once.
woken(clock, target) ==
    LET due == IF target > clock THEN target ELSE clock
    IN  {t \in Instants : due <= t /\ t <= due + 2}

\* Lines 427-449: the instant the loop sleeps until.
earliest(times) == CHOOSE t \in times : \A u \in times : t <= u

\* Lines 147-153: the fields of a new instance the loop reads and writes.
DefaultFields ==
    [last_processed_date |-> <<>>,
     last_sent_date |-> <<>>, last_sent_time |-> <<>>, data |-> <<>>,
     report |-> "not_sent", workbook |-> "not_processed"]

\* The fields loaded from the state file of the day before the first one.
EarlierFields ==
    [last_processed_date |-> <<0>>,
     last_sent_date |-> <<0>>, last_sent_time |-> <<At(0, 0)>>, data |-> <<0>>,
     report |-> "sent", workbook |-> "processed"]

\* Lines 705-708: the fields after process_workbook succeeded.
processed_fields(fields, now) ==
    [fields EXCEPT !.data = <<date_of(now)>>,
                   !.last_processed_date = <<date_of(now)>>,
                   !.workbook = "processed"]

\* Line 1012: whether a processed workbook is there to send.
workbook_available(fields, files) ==
    fields.data # <<>> /\ fields.data[1] \in files

\* Lines 1037-1039: the fields after send_workbook returned.
sent_fields(fields, now) ==
    [fields EXCEPT !.last_sent_date = <<date_of(now)>>,
                   !.last_sent_time = <<now>>,
                   !.report = "sent"]

\* Lines 1043-1045 with the date of sending cleared as well.
send_error_fields_undated(fields) ==
    [fields EXCEPT !.report = "error: exception", !.last_sent_date = <<>>]

\* Lines 1043-1045: the fields after an error of the sending.
send_error_fields(fields) == [fields EXCEPT !.report = "error: exception"]

\* Lines 551-561 with the error of the capture raised to the loop, which
\* ends (lines 481-485).
after_capture_error_raised == "ended"

\* Lines 551-561: capture_image logs its errors and returns None; the loop
\* goes on with the test of the process time.
after_capture_error == "process_check"

\* The count of a kind of run started for a date, one more.
counted(starts, kind, date) ==
    [starts EXCEPT ![date][kind] = IF @ < 2 THEN @ + 1 ELSE @]

\* Lines 415-451: the loop reads the clock and works out the instant of its
\* next event.
Compute ==
    /\ loop.pc = "compute"
    /\ LET now == loop.clock
           next_process == get_next_time(now, loop.process_time)
           next_send == get_next_time(now, loop.send_time)
           next_capture == IF loop.include_images
                           THEN <<get_next_capture_time(now, loop.capture_times)>>
                           ELSE <<>>
       IN  loop' = [loop EXCEPT
                      !.pc = "sleep",
                      !.now = now,
                      !.failure = "none",
                      !.next_capture = next_capture,
                      !.target = earliest({next_process, next_send} \cup Range(next_capture))]
    /\ UNCHANGED <<workbook_vars, sched>>

\* Lines 453-457: the sleep ends at its instant or later and the clock is
\* read again.
Wake ==
    /\ loop.pc = "sleep"
    /\ \E t \in woken(loop.clock, loop.target) :
          loop' = [loop EXCEPT !.pc = "capture_check", !.clock = t, !.now = t]
    /\ UNCHANGED <<workbook_vars, sched>>

\* Lines 459-462 and 487-561: the capture when it is due, which succeeds or
\* fails, and the save of the state, which succeeds or fails.
CaptureImage ==
    /\ loop.pc = "capture_check"
    /\ loop.include_images
    /\ loop.next_capture # <<>>
    /\ loop.now >= loop.next_capture[1]
    /\ \E t \in elapsed(loop.clock), captured \in BOOLEAN, saved \in BOOLEAN :
          loop' = [loop EXCEPT
                        !.pc = IF captured THEN "process_check" ELSE after_capture_error,
                        !.clock = t,
                        !.failure = IF ~captured THEN "capture"
                                    ELSE IF ~saved THEN "save" ELSE "none"]
    /\ UNCHANGED <<workbook_vars, sched>>

\* Line 460: no capture is due.
NoCapture ==
    /\ loop.pc = "capture_check"
    /\ ~(/\ loop.include_images
         /\ loop.next_capture # <<>>
         /\ loop.now >= loop.next_capture[1])
    /\ loop' = [loop EXCEPT !.pc = "process_check", !.failure = "none"]
    /\ UNCHANGED <<workbook_vars, sched>>

\* Lines 464-468: the test of the process time.
process_due ==
    /\ MinuteOf(loop.now) = loop.process_time
    /\ loop.fields.last_processed_date # <<date_of(loop.now)>>

\* Lines 469 and 628-717: process_workbook runs, succeeds or fails, and
\* saves the state, which succeeds or fails.
ProcessWorkbook ==
    /\ loop.pc = "process_check"
    /\ process_due
    /\ \E t \in elapsed(loop.clock), done \in BOOLEAN, saved \in BOOLEAN :
          loop' = [loop EXCEPT
                        !.pc = "send_check",
                        !.clock = t,
                        !.starts = counted(@, "process", date_of(loop.now)),
                        !.fields = IF done THEN processed_fields(@, loop.now)
                                   ELSE [@ EXCEPT !.workbook = "error: exception"],
                        !.files = IF done THEN @ \cup {date_of(loop.now)} ELSE @,
                        !.failure = IF ~done THEN "process"
                                    ELSE IF ~saved THEN "save" ELSE "none"]
    /\ UNCHANGED <<workbook_vars, sched>>

\* Lines 464-468: processing is not due.
NoProcess ==
    /\ loop.pc = "process_check"
    /\ ~process_due
    /\ loop' = [loop EXCEPT !.pc = "send_check"]
    /\ UNCHANGED <<workbook_vars, sched>>

\* Lines 471-475: the test of the send time.
send_due ==
    /\ MinuteOf(loop.now) = loop.send_time
    /\ loop.fields.last_sent_date # <<date_of(loop.now)>>

\* Lines 476 and 1010-1016: send_processed_workbook starts; without a
\* workbook it records the error, saves the state and returns.
SendStart ==
    /\ loop.pc = "send_check"
    /\ send_due
    /\ \E t \in elapsed(loop.clock) :
          IF workbook_available(loop.fields, loop.files)
          THEN loop' = [loop EXCEPT
                          !.pc = "send_call",
                          !.starts = counted(@, "send", date_of(loop.now))]
          ELSE loop' = [loop EXCEPT
                          !.pc = "compute",
                          !.clock = t,
                          !.starts = counted(@, "send", date_of(loop.now)),
                          !.fields = [@ EXCEPT !.report = "error: no processed workbook"],
                          !.failure = "send"]
    /\ UNCHANGED <<workbook_vars, sched>>

\* Lines 471-475: sending is not due.
NoSend ==
    /\ loop.pc = "send_check"
    /\ ~send_due
    /\ loop' = [loop EXCEPT !.pc = "compute"]
    /\ UNCHANGED <<workbook_vars, sched>>

\* Lines 1035 and 1094-1198: send_workbook attaches the file at the path
\* and the mail goes out.
SendWorkbookReturns ==
    /\ loop.pc = "send_call"
    /\ loop.fields.data[1] \in loop.files
    /\ \E t \in elapsed(loop.clock) :
          loop' = [loop EXCEPT
                        !.pc = "send_record",
                        !.clock = t,
                        !.mail = @ \cup {[day |-> DayOf(loop.now),
                                          path |-> loop.fields.data[1]]}]
    /\ UNCHANGED <<workbook_vars, sched>>

\* Lines 1094-1100, 1200-1202 and 1043-1045: send_workbook raises (no key,
\* no file, an error of the service) and the error is recorded.
SendWorkbookRaises ==
    /\ loop.pc = "send_call"
    /\ \E t \in elapsed(loop.clock) :
          loop' = [loop EXCEPT
                        !.pc = "compute",
                        !.clock = t,
                        !.fields = send_error_fields(@),
                        !.failure = "send"]
    /\ UNCHANGED <<workbook_vars, sched>>

\* Lines 1037-1040: the sending is recorded and the state saved, which
\* succeeds or fails.
SendRecord ==
    /\ loop.pc = "send_record"
    /\ \E saved \in BOOLEAN :
          loop' = [loop EXCEPT
                     !.pc = "compute",
                     !.fields = sent_fields(@, loop.now),
                     !.failure = IF saved THEN "none" ELSE "save"]
    /\ UNCHANGED <<workbook_vars, sched>>

\* A workbook is removed from the workbooks directory from outside.
RemoveWorkbook ==
    /\ loop.pc \in {"sleep", "send_call"}
    /\ \E path \in loop.files : loop' = [loop EXCEPT !.files = @ \ {path}]
    /\ UNCHANGED <<workbook_vars, sched>>

\* Lines 478-480 and 483-485: the loop is cancelled in its sleep.
CancelLoop ==
    /\ loop.pc = "sleep"
    /\ loop' = [loop EXCEPT !.pc = "ended", !.cancelled = TRUE]
    /\ UNCHANGED <<workbook_vars, sched>>

(***************************************************************************)
(* reconfigure and the loop tasks of one instance (report.py 353-360,      *)
(* 405-485) on the event loop of asyncio: a task runs when the event loop  *)
(* reaches it in the queue of the scheduled steps, first in, first out.    *)
(***************************************************************************)
Tasks == 1..MaxTasks

\* loop.call_soon with the step put in front of the queue.
call_first(ready, t) == <<t>> \o ready

\* loop.call_soon: the step of task t goes to the end of the queue.
call_soon(ready, t) == Append(ready, t)

\* Line 354: the task exists and is not done.
not_done(tasks, t) == t # 0 /\ tasks[t].pc \in {"created", "sleeping", "working"}

\* Lines 354-355: loop_task.cancel().  The task is marked; when it waits at
\* an await that has not ended, the await is cancelled and the step of the
\* task is scheduled.
cancel(s, t) ==
    IF ~not_done(s.tasks, t)
    THEN s
    ELSE [s EXCEPT
            !.tasks[t].must_cancel = TRUE,
            !.ready = IF s.tasks[t].pc # "created" /\ t \notin Range(s.ready)
                      THEN call_soon(s.ready, t) ELSE s.ready]

\* Line 360: asyncio.create_task; the first step of the task is scheduled.
create_task(s, t) ==
    [s EXCEPT !.tasks[t] = [pc |-> "created", must_cancel |-> FALSE],
              !.ready = call_soon(s.ready, t),
              !.loop_task = t]

\* Lines 213-240 inside a wake-up of the loop: _save_state takes the lock
\* with a lock object of its own and releases it, when it can take it.
saved_under(kind, lock) ==
    IF can_acquire(kind, lock, 1)
    THEN released(kind, acquired(1, "state"), 1, "state")
    ELSE lock

\* Lines 353-360: reconfigure cancels the loop task and creates a new one.
Reconfigure ==
    /\ \E t \in Tasks :
          /\ sched.tasks[t].pc = "none"
          /\ \A u \in Tasks : u < t => sched.tasks[u].pc # "none"
          /\ sched' = create_task(cancel(sched, sched.loop_task), t)
    /\ UNCHANGED <<workbook_vars, loop>>

\* Lines 405-413: the first step of a loop task tries the lock and returns
\* when it is not acquired.
FirstStep ==
    /\ sched.ready # <<>>
    /\ LET t == Head(sched.ready)
       IN  /\ sched.tasks[t].pc = "created"
           /\ ~sched.tasks[t].must_cancel
           /\ IF can_acquire(sched.kind, sched.lock, 1)
              THEN sched' = [sched EXCEPT !.ready = Tail(@),
                                          !.lock = acquired(1, t),
                                          !.tasks[t].pc = "sleeping"]
              ELSE sched' = [sched EXCEPT !.ready = Tail(@),
                                          !.tasks[t].pc = "returned"]
    /\ UNCHANGED <<workbook_vars, loop>>

\* A task cancelled before its first step ends without running its body.
CancelledUnstarted ==
    /\ sched.ready # <<>>
    /\ LET t == Head(sched.ready)
       IN  /\ sched.tasks[t].pc = "created"
           /\ sched.tasks[t].must_cancel
           /\ sched' = [sched EXCEPT !.ready = Tail(@),
                                     !.tasks[t].pc = "cancelled"]
    /\ UNCHANGED <<workbook_vars, loop>>

\* Lines 453, 461 and 469: what the loop awaits (its sleep, the camera, the
\* export of the data) ends and the step of the loop is scheduled.
AwaitEnds ==
    /\ \E t \in Tasks :
          /\ sched.tasks[t].pc \in {"sleeping", "working"}
          /\ t \notin Range(sched.ready)
          /\ sched' = [sched EXCEPT !.ready = call_soon(@, t)]
    /\ UNCHANGED <<workbook_vars, loop>>

\* Lines 456-469: the loop wakes up and starts the capture or the
\* processing that is due, which awaits the camera or the data.
WakeUp ==
    /\ sched.ready # <<>>
    /\ LET t == Head(sched.ready)
       IN  /\ sched.tasks[t].pc = "sleeping"
           /\ ~sched.tasks[t].must_cancel
           /\ sched' = [sched EXCEPT !.ready = Tail(@), !.tasks[t].pc = "working"]
    /\ UNCHANGED <<workbook_vars, loop>>

\* Lines 462, 709, 716 and 415-453: the work of the wake-up ends, the state
\* is saved and the loop sleeps again.
SleepAgain ==
    /\ sched.ready # <<>>
    /\ LET t == Head(sched.ready)
       IN  /\ sched.tasks[t].pc = "working"
           /\ ~sched.tasks[t].must_cancel
           /\ sched' = [sched EXCEPT
                          !.ready = Tail(@),
                          !.lock = saved_under(sched.kind, @),
                          !.tasks[t].pc = "sleeping"]
    /\ UNCHANGED <<workbook_vars, loop>>

\* Lines 478-480 and 483-485: CancelledError is raised at the await of the
\* loop, which no handler of capture_image or process_workbook catches; the
\* loop releases its lock and ends.
Cancelled ==
    /\ sched.ready # <<>>
    /\ LET t == Head(sched.ready)
       IN  /\ sched.tasks[t].pc \in {"sleeping", "working"}
           /\ sched.tasks[t].must_cancel
           /\ sched' = [sched EXCEPT
                          !.ready = Tail(@),
                          !.lock = released(sched.kind, @, 1, t),
                          !.tasks[t].pc = "cancelled"]
    /\ UNCHANGED <<workbook_vars, loop>>

(***************************************************************************)
(* The scratch directories of the repair (report.py 800-990, the same in   *)
(* processor.py 305-368 and 370-535).  Directory 0 is temp_excel, the      *)
(* directory s > 0 is temp_excel_<timestamp> of the second s; a directory  *)
(* is absent, <<>>, or holds the files that repairs extracted into it.     *)
(***************************************************************************)
\* The repairs, each of a process of its own.
Ops == {1, 2}

\* Line 878: the seconds of the clock, the timestamps of the directories.
Seconds == 1..MaxSeconds

\* Line 810: the directory of _get_sheet_mappings.
temp_excel == 0

\* The variables the repair leaves alone here.
unrepaired_vars ==
    <<client, skip, all_data, aggregated_data, requests, bucket_period,
      bucket_method, include_keys_regex, num_data_rows, sched, loop>>

\* shutil.rmtree(dir).
rmtree(dirs, dir) == [dirs EXCEPT ![dir] = <<>>]

\* os.makedirs(dir, exist_ok=True) and ZipFile.extractall(dir) by repair o.
extractall(dirs, dir, o) ==
    [dirs EXCEPT ![dir] = IF @ = <<>> THEN <<{o}>> ELSE <<@[1] \cup {o}>>]

\* Lines 860-863: temp_excel is removed unless the text "temp_excel" occurs
\* in the path of the workbook.
cleaned(dirs, path_names_temp_excel) ==
    IF dirs[temp_excel] # <<>> /\ ~path_names_temp_excel
    THEN rmtree(dirs, temp_excel)
    ELSE dirs

\* Repair o moves to `to`.
At_(o, to) == [pc EXCEPT ![o] = to]

\* Lines 877-896: _fix_workbook names its directory after the second of the
\* clock, removes a directory of that name, creates it and extracts the
\* workbook into it.  The path of the workbook names temp_excel or not,
\* with the prefix of the configuration.
FixBegin(o) ==
    /\ pc[o] = "idle"
    /\ \E s \in Seconds, named \in BOOLEAN :
          /\ self' = [self EXCEPT ![o] = [timestamp |-> s,
                                          path_names_temp_excel |-> named,
                                          error |-> "none"]]
          /\ disk' = extractall(rmtree(disk, s), s, o)
    /\ pc' = At_(o, "mappings")
    /\ UNCHANGED unrepaired_vars

\* Lines 810-815: _get_sheet_mappings creates temp_excel and extracts the
\* workbook into it.
MappingsBegin(o) ==
    /\ pc[o] = "mappings"
    /\ disk' = extractall(disk, temp_excel, o)
    /\ pc' = At_(o, "mappings_read")
    /\ UNCHANGED <<self, unrepaired_vars>>

\* Lines 817-859: the two parts are looked up and parsed: a part is missing,
\* as it is when the directory is gone, or does not parse, or the mapping
\* is returned.
MappingsRead(o) ==
    /\ pc[o] = "mappings_read"
    /\ \E outcome \in {"none", "missing part", "parse error"} :
          /\ disk[temp_excel] = <<>> => outcome = "missing part"
          /\ self' = [self EXCEPT ![o].error = outcome]
    /\ pc' = At_(o, "mappings_finally")
    /\ UNCHANGED <<disk, unrepaired_vars>>

\* Lines 860-863: the finally of _get_sheet_mappings.
MappingsFinally(o) ==
    /\ pc[o] = "mappings_finally"
    /\ disk' = cleaned(disk, self[o].path_names_temp_excel)
    /\ pc' = At_(o, IF self[o].error = "none" THEN "sheets" ELSE "finally")
    /\ UNCHANGED <<self, unrepaired_vars>>

\* Lines 914-969: the sheets are parsed, pruned and written in the directory
\* of the repair: the directory is gone, a sheet does not parse, or all are
\* written.
SheetsFixed(o) ==
    /\ pc[o] = "sheets"
    /\ \E outcome \in {"none", "missing part", "parse error"} :
          /\ disk[self[o].timestamp] = <<>> => outcome = "missing part"
          /\ self' = [self EXCEPT ![o].error = outcome]
          /\ pc' = At_(o, IF outcome = "none" THEN "zip" ELSE "finally")
    /\ UNCHANGED <<disk, unrepaired_vars>>

\* Lines 971-981: the final workbook is written from the directory, or the
\* write fails.
ZipWritten(o) ==
    /\ pc[o] = "zip"
    /\ \E outcome \in {"none", "write error"} :
          self' = [self EXCEPT ![o].error = outcome]
    /\ pc' = At_(o, "finally")
    /\ UNCHANGED <<disk, unrepaired_vars>>

\* Lines 986-990: the finally of _fix_workbook removes the directory of the
\* repair when it exists.
FixFinally(o) ==
    /\ pc[o] = "finally"
    /\ disk' = rmtree(disk, self[o].timestamp)
    /\ pc' = At_(o, "done")
    /\ UNCHANGED <<self, unrepaired_vars>>

(***************************************************************************)
(* Spec: one run of process_workbook.                                      *)
(***************************************************************************)
Init ==
    /\ pc = "start"
    /\ client \in [n : DataSizes, short : BOOLEAN]
    /\ skip = 0
    /\ all_data = <<>>
    /\ aggregated_data = <<>>
    /\ requests = <<>>
    /\ bucket_period = PT5M
    /\ bucket_method = "pct99"
    /\ include_keys_regex = RawRegex
    /\ disk \in [template : {<<>>} \cup {<<t>> : t \in TemplateInputs},
                 raw_export : {<<>>, <<StaleRaw>>},
                 wip : {<<>>},
                 final : {<<>>}]
    /\ self = InitialSelf
    /\ num_data_rows = 0
    /\ sched = NoSchedule
    /\ loop = NoLoop

Next ==
    \/ StartProcess
    \/ Connect
    \/ FetchPage
    \/ FetchRaises
    \/ ExportWrite
    \/ CopyTemplate
    \/ UpdateRawImport
    \/ FixWorkbook
    \/ FixFailsRepackaging
    \/ Finish
    \/ Raise

Spec == Init /\ [][Next]_vars

(***************************************************************************)
(* SpecBucket: the end of export_to_excel and the import, for any list of  *)
(* records and any arguments of _bucket_data.                              *)
(***************************************************************************)
InitBucket ==
    /\ pc = "export"
    /\ client = [n |-> 0, short |-> FALSE]
    /\ skip = 0
    /\ all_data \in RecordLists
    /\ aggregated_data = <<>>
    /\ requests = <<>>
    /\ bucket_period \in Periods
    /\ bucket_method \in MethodInputs
    /\ include_keys_regex \in RegexInputs
    /\ disk = [template |-> <<CHOOSE t \in TemplateInputs :
                                 /\ DOMAIN t.mapping = DOMAIN FullMapping
                                 /\ Len(t.parts["sheet1.xml"]) > 1>>,
               raw_export |-> <<>>, wip |-> <<>>, final |-> <<>>]
    /\ self = InitialSelf
    /\ num_data_rows = 0
    /\ sched = NoSchedule
    /\ loop = NoLoop

NextBucket ==
    \/ ExportWrite
    \/ CopyTemplate
    \/ UpdateRawImport

SpecBucket == InitBucket /\ [][NextBucket]_vars

(***************************************************************************)
(* SpecRerun: one run of process_workbook by a component that processed    *)
(* and sent on an earlier day, on small datasets.                          *)
(***************************************************************************)
InitRerun ==
    /\ pc = "start"
    /\ client \in [n : {0, 2}, short : BOOLEAN]
    /\ skip = 0
    /\ all_data = <<>>
    /\ aggregated_data = <<>>
    /\ requests = <<>>
    /\ bucket_period = PT5M
    /\ bucket_method = "pct99"
    /\ include_keys_regex = RawRegex
    /\ disk \in [template : {<<>>} \cup {<<t>> : t \in TemplateInputs},
                 raw_export : {<<>>, <<StaleRaw>>},
                 wip : {<<>>},
                 final : {<<>>}]
    /\ self = EarlierSelf
    /\ num_data_rows = 0
    /\ sched = NoSchedule
    /\ loop = NoLoop

SpecRerun == InitRerun /\ [][Next]_vars

(***************************************************************************)
(* SpecFix: the repair of a package, by _fix_workbook and by               *)
(* WorkbookProcessor.fix.                                                  *)
(***************************************************************************)
InitFix ==
    /\ pc = "fix"
    /\ client = [n |-> 0, short |-> FALSE]
    /\ skip = 0
    /\ all_data = <<>>
    /\ aggregated_data = <<>>
    /\ requests = <<>>
    /\ bucket_period = PT5M
    /\ bucket_method = "pct99"
    /\ include_keys_regex = RawRegex
    /\ disk \in [template : {<<>>}, raw_export : {<<>>},
                 wip : {<<p>> : p \in PackageInputs}, final : {<<>>}]
    /\ self = InitialSelf
    /\ num_data_rows \in 0..MaxN
    /\ sched = NoSchedule
    /\ loop = NoLoop

\* _fix_workbook run once more, on the package it wrote.
FixWorkbookAgain ==
    /\ pc = "finish"
    /\ disk' = [disk EXCEPT !.final = <<fix_workbook(disk.final[1], num_data_rows)>>]
    /\ pc' = "fixed_again"
    /\ UNCHANGED <<client, skip, all_data, aggregated_data, requests, bucket_period,
                   bucket_method, include_keys_regex, self, num_data_rows, sched, loop>>

\* WorkbookProcessor.fix run once more, on the package it wrote.
ProcessorFixAgain ==
    /\ pc = "processor_fixed"
    /\ disk' = [disk EXCEPT !.final = <<processor_fix(disk.final[1], num_data_rows)>>]
    /\ pc' = "processor_fixed_again"
    /\ UNCHANGED <<client, skip, all_data, aggregated_data, requests, bucket_period,
                   bucket_method, include_keys_regex, self, num_data_rows, sched, loop>>

NextFix ==
    \/ FixWorkbook
    \/ ProcessorFix
    \/ FixWorkbookAgain
    \/ ProcessorFixAgain

SpecFix == InitFix /\ [][NextFix]_vars

(***************************************************************************)
(* SpecSched: two processes, each with an instance of the component, on    *)
(* one state file and one lock file.                                       *)
(***************************************************************************)
InitSched ==
    /\ pc = "scheduled"
    /\ client = [n |-> 0, short |-> FALSE]
    /\ skip = 0
    /\ all_data = <<>>
    /\ aggregated_data = <<>>
    /\ requests = <<>>
    /\ bucket_period = PT5M
    /\ bucket_method = "pct99"
    /\ include_keys_regex = RawRegex
    /\ disk = [template |-> <<>>, raw_export |-> <<>>, wip |-> <<>>, final |-> <<>>]
    /\ self = InitialSelf
    /\ num_data_rows = 0
    /\ sched \in [kind : {"fcntl", "handle"},
                  lock : {<<>>},
                  files : [{"state_file", "temp_file"} ->
                             {<<>>, written(EarlierState, TRUE)}],
                  proc : {[p \in Procs |->
                             [pc |-> "none", state |-> DefaultState, event |-> "none"]]}]
    /\ sched.files.temp_file = <<>>
    /\ loop = NoLoop

NextSched ==
    \E p \in Procs :
        \/ Construct(p)
        \/ LoadAcquire(p)
        \/ LoadTimesOut(p)
        \/ LoadRead(p)
        \/ LoadRelease(p)
        \/ StartLoop(p)
        \/ ProcessSucceeds(p)
        \/ ProcessFails(p)
        \/ SendWorkbook(p)
        \/ SaveAcquire(p)
        \/ SaveTimesOut(p)
        \/ SaveOpen(p)
        \/ SaveWrite(p)
        \/ SaveReplace(p)
        \/ SaveRelease(p)
        \/ Resume(p)
        \/ StopLoop(p)
        \/ Crash(p)

SpecSched == InitSched /\ [][NextSched]_vars

(***************************************************************************)
(* SpecLoop: the scheduled loop of one instance over MaxDays days.         *)
(***************************************************************************)
InitLoop ==
    /\ pc = "scheduled"
    /\ client = [n |-> 0, short |-> FALSE]
    /\ skip = 0
    /\ all_data = <<>>
    /\ aggregated_data = <<>>
    /\ requests = <<>>
    /\ bucket_period = PT5M
    /\ bucket_method = "pct99"
    /\ include_keys_regex = RawRegex
    /\ disk = [template |-> <<>>, raw_export |-> <<>>, wip |-> <<>>, final |-> <<>>]
    /\ self = InitialSelf
    /\ num_data_rows = 0
    /\ sched = NoSchedule
    /\ loop \in [pc : {"compute"},
                 clock : {0, 1},
                 now : {0},
                 target : {0},
                 next_capture : {<<>>},
                 process_time : 0..(Minutes - 1),
                 send_time : 0..(Minutes - 1),
                 include_images : BOOLEAN,
                 capture_times : {{1}},
                 fields : {DefaultFields, EarlierFields},
                 files : {{}, {0}},
                 mail : {{}},
                 starts : {[d \in 1..MaxDays |-> [process |-> 0, send |-> 0]]},
                 failure : {"none"},
                 cancelled : {FALSE}]
    /\ loop.files # {} => loop.fields = EarlierFields

NextLoop ==
    \/ Compute
    \/ Wake
    \/ CaptureImage
    \/ NoCapture
    \/ ProcessWorkbook
    \/ NoProcess
    \/ SendStart
    \/ NoSend
    \/ SendWorkbookReturns
    \/ SendWorkbookRaises
    \/ SendRecord
    \/ RemoveWorkbook
    \/ CancelLoop

SpecLoop == InitLoop /\ [][NextLoop]_vars

(***************************************************************************)
(* SpecReconf: MaxTasks calls of reconfigure on one instance.              *)
(***************************************************************************)
InitReconf ==
    /\ pc = "scheduled"
    /\ client = [n |-> 0, short |-> FALSE]
    /\ skip = 0
    /\ all_data = <<>>
    /\ aggregated_data = <<>>
    /\ requests = <<>>
    /\ bucket_period = PT5M
    /\ bucket_method = "pct99"
    /\ include_keys_regex = RawRegex
    /\ disk = [template |-> <<>>, raw_export |-> <<>>, wip |-> <<>>, final |-> <<>>]
    /\ self = InitialSelf
    /\ num_data_rows = 0
    /\ sched \in [kind : {"fcntl", "handle"},
                  lock : {<<>>},
                  ready : {<<>>},
                  loop_task : {0},
                  tasks : {[t \in Tasks |-> [pc |-> "none", must_cancel |-> FALSE]]}]
    /\ loop = NoLoop

NextReconf ==
    \/ Reconfigure
    \/ FirstStep
    \/ CancelledUnstarted
    \/ AwaitEnds
    \/ WakeUp
    \/ SleepAgain
    \/ Cancelled

SpecReconf == InitReconf /\ [][NextReconf]_vars

(***************************************************************************)
(* SpecScratch: two repairs in the same workbooks directory, each run by   *)
(* a process of its own, one after the other or overlapping.               *)
(***************************************************************************)
InitScratch ==
    /\ pc = [o \in Ops |-> "idle"]
    /\ client = [n |-> 0, short |-> FALSE]
    /\ skip = 0
    /\ all_data = <<>>
    /\ aggregated_data = <<>>
    /\ requests = <<>>
    /\ bucket_period = PT5M
    /\ bucket_method = "pct99"
    /\ include_keys_regex = RawRegex
    /\ disk = [dir \in {temp_excel} \cup Seconds |-> <<>>]
    /\ self = [o \in Ops |-> [timestamp |-> 1, path_names_temp_excel |-> FALSE,
                              error |-> "none"]]
    /\ num_data_rows = 0
    /\ sched = NoSchedule
    /\ loop = NoLoop

NextScratch ==
    \E o \in Ops :
        \/ FixBegin(o)
        \/ MappingsBegin(o)
        \/ MappingsRead(o)
        \/ MappingsFinally(o)
        \/ SheetsFixed(o)
        \/ ZipWritten(o)
        \/ FixFinally(o)

SpecScratch == InitScratch /\ [][NextScratch]_vars

(***************************************************************************)
(* The page loop (Spec).                                                   *)
(***************************************************************************)
\* C1: the i-th request of the page loop carries $skip = 1000 * (i - 1) and
\* $limit = 1000; a request answered by fewer than 1000 records (an empty
\* page included) is the last one and the loop has left; three full pages
\* and an empty one make exactly 4 requests and 3000 records, two full pages
\* and a short third one exactly 3 requests.
C1_PageLoop ==
    LET answered(i) == requests[i].returned
    IN  /\ \A i \in DOMAIN requests :
              /\ requests[i].skip = 1000 * (i - 1)
              /\ requests[i].limit = 1000
              /\ answered(i) < 1000 => i = Len(requests) /\ pc # "fetch"
        /\ (/\ Len(requests) >= 4
            /\ \A i \in 1..3 : answered(i) = 1000
            /\ answered(4) = 0)
              => Len(requests) = 4 /\ Len(all_data) = 3000
        /\ (/\ Len(requests) >= 3
            /\ \A i \in 1..2 : answered(i) = 1000
            /\ answered(3) \in 1..999)
              => Len(requests) = 3 /\ Len(all_data) = 2000 + answered(3)

\* Three full pages were followed by an empty one.
C1_Witness ==
    /\ Len(requests) = 4
    /\ requests[4].returned = 0
    /\ requests[4].skip = 3000
    /\ Len(all_data) = 3000
    /\ pc = "export"

\* C2: with a client that serves its dataset in the order of time_received
\* and honours $skip and $limit, the records accumulated so far are the
\* first records of the dataset within [start, end), in order and once each,
\* and once the loop has ended they are all of them, for every size of the
\* dataset.
C2_Complete ==
    ~client.short =>
        /\ \A i \in DOMAIN all_data :
              /\ all_data[i].id = i
              /\ all_data[i] = StoredRecord(i)
              /\ 43200 <= all_data[i].time_received
              /\ all_data[i].time_received < 88200
              /\ i > 1 => all_data[i - 1].time_received <= all_data[i].time_received
        /\ Len(all_data) <= client.n
        /\ (requests # <<>> /\ requests[Len(requests)].returned \in 0..999)
              => Len(all_data) = client.n

\* The loop has ended on a dataset of two full pages: the empty third page
\* ended it.
C2_Witness ==
    /\ ~client.short
    /\ client.n = 2000
    /\ Len(requests) = 3
    /\ requests[3].returned = 0
    /\ Len(all_data) = 2000
    /\ all_data[1001].id = 1001

\* C3: once a page query has raised, no further query is made, the run is
\* over with an error status, the raw export file is the one the run found
\* (none, or the file of an earlier run) and there is neither a WIP file nor
\* a final workbook.
C3_QueryErrorAborts ==
    \A i \in DOMAIN requests :
        requests[i].returned = -1 =>
            /\ i = Len(requests)
            /\ pc = "done"
            /\ self.workbook = "error: query failed"
            /\ disk.raw_export \in {<<>>, <<StaleRaw>>}
            /\ disk.wip = <<>>
            /\ disk.final = <<>>

\* The third query raised after two full pages.
C3_Witness ==
    /\ Len(requests) = 3
    /\ requests[3].returned = -1
    /\ Len(all_data) = 2000
    /\ pc = "done"
    /\ disk.raw_export = <<>>

(***************************************************************************)
(* The bucketing and the sheets written from it (SpecBucket).              *)
(***************************************************************************)
\* The values the records of all_data whose time lies in
\* [start, start + bucket_period) carry for the field, in the order of
\* all_data.
Carried(start, field) ==
    LET rows == SelectSeq(all_data,
                   LAMBDA row : /\ start <= row.time_received
                                /\ row.time_received < start + bucket_period
                                /\ field \in DOMAIN row.readings)
    IN  [i \in DOMAIN rows |-> rows[i].readings[field]]

\* The sum of whole numbers.
RECURSIVE Total(_)
Total(values) ==
    IF values = <<>> THEN 0 ELSE values[1].num + Total(Tail(values))

\* C4: every record of the input lies in exactly one output row's bucket,
\* [b, b + period) with b - epoch a whole multiple of the period; records of
\* equal time share it; there are as many output rows as distinct aligned
\* starts among the records, and none for no record.
C4_FloorBuckets ==
    pc # "export" =>
        LET out == aggregated_data
            of(i) == {j \in DOMAIN out :
                        /\ out[j].time_received <= all_data[i].time_received
                        /\ all_data[i].time_received
                              < out[j].time_received + bucket_period}
            starts == {all_data[i].time_received
                         - (all_data[i].time_received % bucket_period) :
                           i \in DOMAIN all_data}
        IN  /\ \A i \in DOMAIN all_data : Cardinality(of(i)) = 1
            /\ \A j \in DOMAIN out : out[j].time_received % bucket_period = 0
            /\ \A i, k \in DOMAIN all_data :
                  all_data[i].time_received = all_data[k].time_received
                      => of(i) = of(k)
            /\ Len(out) = Cardinality(starts)
            /\ {out[j].time_received : j \in DOMAIN out} = starts
            /\ all_data = <<>> => out = <<>>

\* Two records on the two sides of a period boundary before the epoch's
\* first period: two buckets.
C4_Witness ==
    /\ pc # "export"
    /\ Len(all_data) = 2
    /\ all_data[1].time_received = -1
    /\ all_data[2].time_received = 0
    /\ Len(aggregated_data) = 2
    /\ aggregated_data[1].time_received = -2

\* C5: for min, max, avg, first and last, the value of a field in an output
\* row is the statistic over the values the bucket's records carry for the
\* field: the smallest, the largest, the sum divided by the count, the value
\* of the first carrying record and the value of the last one (the earliest
\* and the latest of the bucket when the records come in the order of their
\* time, as the query returns them).
C5_Statistics ==
    (pc # "export" /\ bucket_method \in {"min", "max", "avg", "first", "last"}) =>
        \A j \in DOMAIN aggregated_data :
            \A field \in DOMAIN aggregated_data[j].readings :
                LET values == Carried(aggregated_data[j].time_received, field)
                    v == aggregated_data[j].readings[field]
                    nums == {values[i].num : i \in DOMAIN values}
                IN  /\ values # <<>>
                    /\ \A i \in DOMAIN values : values[i].den = 1
                    /\ bucket_method = "min" =>
                          v.den = 1 /\ v.num \in nums /\ \A n \in nums : v.num <= n
                    /\ bucket_method = "max" =>
                          v.den = 1 /\ v.num \in nums /\ \A n \in nums : v.num >= n
                    /\ bucket_method = "avg" =>
                          v.num * Len(values) = Total(values) * v.den
                    /\ bucket_method = "first" => v = values[1]
                    /\ bucket_method = "last" => v = values[Len(values)]

\* first over a bucket whose earliest record carries 20 and whose latest
\* carries 10 gives 20, not the smallest.
C5_Witness ==
    /\ pc # "export"
    /\ bucket_method = "first"
    /\ Len(all_data) = 2
    /\ all_data[1].time_received = 0
    /\ all_data[2].time_received = 1
    /\ "temp_raw" \in DOMAIN all_data[1].readings
    /\ all_data[1].readings.temp_raw = Num(20)
    /\ "temp_raw" \in DOMAIN all_data[2].readings
    /\ all_data[2].readings.temp_raw = Num(10)
    /\ aggregated_data[1].readings.temp_raw = Num(20)

\* C6: for a bucket_method that is none of the seven statistics,
\* _bucket_data returns rows, the rows of method max: every value is the
\* largest of the values carried.
C6_UnknownMethodIsMax ==
    bucket_method \notin {"min", "max", "avg", "first", "last", "pct95", "pct99"} =>
        /\ bucket_data(all_data, bucket_period, bucket_method, include_keys_regex)
              = bucket_data(all_data, bucket_period, "max", include_keys_regex)
        /\ pc # "export" =>
              /\ aggregated_data =
                    bucket_data(all_data, bucket_period, "max", include_keys_regex)
              /\ \A j \in DOMAIN aggregated_data :
                    \A field \in DOMAIN aggregated_data[j].readings :
                        LET values == Carried(aggregated_data[j].time_received, field)
                            v == aggregated_data[j].readings[field]
                        IN  /\ \E i \in DOMAIN values : v = values[i]
                            /\ \A i \in DOMAIN values : values[i].num <= v.num

\* Method median over the values 20 and 10 of one bucket gives 20.
C6_Witness ==
    /\ pc # "export"
    /\ bucket_method = "median"
    /\ Len(all_data) = 2
    /\ Len(aggregated_data) = 1
    /\ "temp_raw" \in DOMAIN aggregated_data[1].readings
    /\ Carried(aggregated_data[1].time_received, "temp_raw") = <<Num(20), Num(10)>>
    /\ aggregated_data[1].readings.temp_raw = Num(20)

\* C7: a field name is in an output row exactly when a record of the bucket
\* carries it and the filter, if there is one, matches the name from its
\* first character on: '.*_raw' matches the names that hold _raw somewhere,
\* '_raw' those that begin with it.
C7_KeyFilter ==
    pc # "export" =>
        LET holds(name, i) ==
                /\ i + 3 <= Len(Chars[name])
                /\ SubSeq(Chars[name], i, i + 3) = <<"_", "r", "a", "w">>
            passes(name) ==
                \/ include_keys_regex = <<>>
                \/ /\ include_keys_regex = RawRegex
                   /\ \E i \in 1..Len(Chars[name]) : holds(name, i)
                \/ /\ include_keys_regex = BareRawRegex
                   /\ holds(name, 1)
        IN  \A j \in DOMAIN aggregated_data :
                \A name \in {"temp_raw", "y_calibrated"} :
                    name \in DOMAIN aggregated_data[j].readings
                        <=> /\ Carried(aggregated_data[j].time_received, name) # <<>>
                            /\ passes(name)

\* With the filter '.*_raw', a record carrying both fields gives a row with
\* temp_raw and without y_calibrated.
C7_Witness ==
    /\ pc # "export"
    /\ include_keys_regex = RawRegex
    /\ Len(all_data) = 1
    /\ DOMAIN all_data[1].readings = {"temp_raw", "y_calibrated"}
    /\ DOMAIN aggregated_data[1].readings = {"temp_raw"}

\* C8: the output rows are strictly ascending by bucket start; the RAW sheet
\* holds the header in row 1 and the i-th output row, its time in column A,
\* in row i + 1, and so does the 'Raw Import' sheet after the import.
C8_RowOrder ==
    LET out == aggregated_data
        placed(sheet) ==
            \A i \in DOMAIN out :
                /\ Cardinality({n \in DOMAIN sheet : sheet[n].r = i + 1}) = 1
                /\ \E n \in DOMAIN sheet :
                      /\ sheet[n].r = i + 1
                      /\ sheet[n].cells # <<>>
                      /\ sheet[n].cells[1] =
                            Cell(1, TimeVal(out[i].time_received - 18000))
                      /\ \A m \in 2..Len(sheet[n].cells) :
                            sheet[n].cells[m].v[1].kind = "num"
    IN  /\ pc # "export" =>
              /\ \A i, j \in DOMAIN out :
                    i < j => out[i].time_received < out[j].time_received
              /\ placed(disk.raw_export[1])
              /\ out # <<>> =>
                    /\ disk.raw_export[1][1].r = 1
                    /\ disk.raw_export[1][1].cells[1] = Cell(1, StrVal("time_received"))
        /\ pc = "fix" =>
              LET sheet == disk.wip[1].parts[disk.wip[1].mapping["Raw Import"]]
              IN  /\ placed(sheet)
                  /\ sheet[1] = disk.template[1].parts["sheet1.xml"][1]
                  /\ num_data_rows = Len(out)

\* Records given latest first: two rows, ascending, imported in that order.
C8_Witness ==
    /\ pc = "fix"
    /\ Len(all_data) = 2
    /\ all_data[1].time_received = 1
    /\ all_data[2].time_received = -1
    /\ Len(aggregated_data) = 2
    /\ aggregated_data[1].time_received = -2
    /\ num_data_rows = 2

(***************************************************************************)
(* The repair (SpecFix) and the anchor of the assembled workbook (Spec).   *)
(***************************************************************************)
\* The sheets the repair that ran prunes: the list of _fix_workbook or the
\* list of WorkbookProcessor.fix.
PruneListed ==
    IF pc \in {"finish", "fixed_again"}
    THEN {"Calibrated Values", "Bounded Calibrated", "Empty Shelf Tracker"}
    ELSE {"Sorted Raw", "Calibrated Values", "Bounded Calibrated"}

\* C9 as stated: after the repair with N data rows, every prune-listed sheet
\* of the sheet map holds no row of index above N + 1 and holds exactly its
\* former rows of index up to N + 1, unchanged and in their order.
C9_PruneAllListed ==
    pc \in {"finish", "processor_fixed"} =>
        \A name \in PruneListed \cap DOMAIN disk.wip[1].mapping :
            LET before == disk.wip[1].parts[disk.wip[1].mapping[name]]
                after == disk.final[1].parts[disk.wip[1].mapping[name]]
            IN  /\ \A i \in DOMAIN after : after[i].r <= num_data_rows + 1
                /\ after = SelectSeq(before, LAMBDA row : row.r <= num_data_rows + 1)

\* C9, amended: the statement holds for every prune-listed sheet of the
\* sheet map other than 'Sorted Raw'; 'Sorted Raw', which
\* WorkbookProcessor.fix prunes and then gives its anchor, holds no row of
\* index above N + 1 other than row 2, and its rows other than row 2 are
\* exactly its former rows of index up to N + 1 other than row 2, unchanged
\* and in their order.
C9_PruneExceptAnchorRow ==
    pc \in {"finish", "processor_fixed"} =>
        \A name \in PruneListed \cap DOMAIN disk.wip[1].mapping :
            LET before == disk.wip[1].parts[disk.wip[1].mapping[name]]
                after == disk.final[1].parts[disk.wip[1].mapping[name]]
                kept == SelectSeq(before, LAMBDA row : row.r <= num_data_rows + 1)
            IN  IF name # "Sorted Raw"
                THEN /\ \A i \in DOMAIN after : after[i].r <= num_data_rows + 1
                     /\ after = kept
                ELSE /\ \A i \in DOMAIN after :
                           after[i].r <= num_data_rows + 1 \/ after[i].r = 2
                     /\ SelectSeq(after, LAMBDA row : row.r # 2)
                           = SelectSeq(kept, LAMBDA row : row.r # 2)

\* WorkbookProcessor.fix ran with one data row on a package whose
\* 'Calibrated Values' sheet held the rows 3 and 1 in this order: row 1 is
\* what is left of it.
C9_Witness ==
    /\ pc = "processor_fixed"
    /\ num_data_rows = 1
    /\ "Calibrated Values" \in DOMAIN disk.wip[1].mapping
    /\ Len(disk.wip[1].parts["sheet3.xml"]) = 2
    /\ disk.wip[1].parts["sheet3.xml"][1].r = 3
    /\ disk.wip[1].parts["sheet3.xml"][2].r = 1
    /\ Len(disk.final[1].parts["sheet3.xml"]) = 1
    /\ disk.final[1].parts["sheet3.xml"][1] = disk.wip[1].parts["sheet3.xml"][2]

\* C10: once process_workbook has written the final workbook from N
\* aggregated rows, cell A2 of its 'Sorted Raw' sheet carries the formula
\* SORT('Raw Import'!A2:X{N+1},1,1), the array range A2:X{N+1} and the
\* value 0.
C10_AnchorRange ==
    (/\ self.workbook = "processed"
     /\ disk.final # <<>>
     /\ "Sorted Raw" \in DOMAIN disk.final[1].mapping) =>
        LET sheet == disk.final[1].parts[disk.final[1].mapping["Sorted Raw"]]
            n == Len(aggregated_data)
        IN  \E i \in DOMAIN sheet :
                /\ sheet[i].r = 2
                /\ \E j \in DOMAIN sheet[i].cells :
                      LET a2 == sheet[i].cells[j]
                      IN  /\ a2.c = 1
                          /\ Len(a2.f) = 1
                          /\ a2.f[1].text.sheet = "Raw Import"
                          /\ a2.f[1].text.range = [from |-> "A2", col |-> "X",
                                                   row |-> n + 1]
                          /\ a2.f[1].t = "array"
                          /\ a2.f[1].ref = <<[from |-> "A2", col |-> "X",
                                              row |-> n + 1]>>
                          /\ a2.v = <<NumVal(Num(0))>>

\* C11: a second run of the repair with the same number of data rows, on
\* the package the first run wrote, writes the same package: no row is
\* removed, and the rows of every sheet and the formula and range of the
\* anchor are those of the first run.
C11_RepairIdempotent ==
    [][pc' \in {"fixed_again", "processor_fixed_again"} => disk'.final = disk.final]_vars

\* WorkbookProcessor.fix ran twice with no data row on a package whose
\* 'Sorted Raw' sheet held three rows: the first run removed rows and made
\* the anchor, in a row 2 of its own.
C11_Witness ==
    /\ pc = "processor_fixed_again"
    /\ num_data_rows = 0
    /\ "Sorted Raw" \in DOMAIN disk.wip[1].mapping
    /\ Len(disk.wip[1].parts["sheet2.xml"]) = 3
    /\ Len(disk.final[1].parts["sheet2.xml"]) = 2
    /\ disk.final[1].parts["sheet2.xml"][2].r = 2
    /\ disk.final[1].parts["sheet2.xml"][2].cells[1].f[1].ref = <<range_to(1)>>

\* C12: on a package whose sheet map lacks a sheet of the list, the repair
\* does not raise and writes the final file, in which every other listed
\* sheet of the map is pruned to the rows up to N + 1 (and row 2 of 'Sorted
\* Raw') and the part of no unlisted sheet has changed.
C12_MissingSheetSkipped ==
    (pc # "fix" /\ PruneListed \ DOMAIN disk.wip[1].mapping # {}) =>
        /\ pc \in {"finish", "processor_fixed", "fixed_again", "processor_fixed_again"}
        /\ self.workbook = "not_processed"
        /\ disk.final # <<>>
        /\ disk.final[1].mapping = disk.wip[1].mapping
        /\ \A name \in DOMAIN disk.wip[1].mapping :
              LET before == disk.wip[1].parts[disk.wip[1].mapping[name]]
                  after == disk.final[1].parts[disk.wip[1].mapping[name]]
              IN  IF name \in PruneListed
                  THEN /\ \A i \in DOMAIN after :
                             \/ after[i].r <= num_data_rows + 1
                             \/ after[i].r = 2 /\ name = "Sorted Raw"
                       /\ \A i \in DOMAIN before :
                             before[i].r <= num_data_rows + 1 =>
                                 \E j \in DOMAIN after : after[j].r = before[i].r
                  ELSE after = before

\* _fix_workbook ran with one data row on a package without 'Empty Shelf
\* Tracker' whose 'Calibrated Values' sheet held three rows: two are left.
C12_Witness ==
    /\ pc = "finish"
    /\ num_data_rows = 1
    /\ "Empty Shelf Tracker" \notin DOMAIN disk.wip[1].mapping
    /\ Len(disk.wip[1].parts["sheet3.xml"]) = 3
    /\ Len(disk.final[1].parts["sheet3.xml"]) = 2

\* C13: the package the repair writes holds the parts of its input under
\* the same names and no other; the sheet map and every part that is not
\* the part of a listed sheet of the map are unchanged, and so is the whole
\* package when the map holds no listed sheet.
C13_ArchiveFrame ==
    pc \in {"finish", "processor_fixed"} =>
        LET before == disk.wip[1]
            after == disk.final[1]
            pruned == {before.mapping[name] :
                         name \in PruneListed \cap DOMAIN before.mapping}
        IN  /\ DOMAIN after.parts = DOMAIN before.parts
            /\ after.mapping = before.mapping
            /\ \A part \in DOMAIN before.parts \ pruned :
                  after.parts[part] = before.parts[part]
            /\ pruned = {} => after = before

\* _fix_workbook ran with no data row on a package whose sheet map holds
\* none of the listed sheets and whose parts hold rows above row 1: the
\* package is unchanged.
C13_Witness ==
    /\ pc = "finish"
    /\ num_data_rows = 0
    /\ DOMAIN disk.wip[1].mapping = {"Raw Import"}
    /\ Len(disk.wip[1].parts["sheet3.xml"]) = 3
    /\ disk.final = disk.wip

(***************************************************************************)
(* The files of a run of process_workbook (Spec).                          *)
(***************************************************************************)
\* C17: whenever there is a file at the final path it is a whole workbook,
\* holding every part of the template; a run that failed has left none that
\* is not.
C17_FinalIsWhole ==
    disk.final # <<>> =>
        /\ DOMAIN disk.final[1].parts = DOMAIN disk.template[1].parts
        /\ disk.final[1].mapping = disk.template[1].mapping

\* The stages of a run at which the WIP file has been made.
AfterCopy == {"import", "fix", "finish"}

\* C18: a step removes the WIP file only when the final workbook is there,
\* whole, and the run ends 'processed'; a run that ends with an error after
\* it made the WIP file (in the import or in the repair) leaves the WIP
\* file as it was.
C18_WipKept ==
    [][/\ (disk.wip # <<>> /\ disk'.wip = <<>>) =>
             /\ disk.final # <<>>
             /\ DOMAIN disk.final[1].parts = DOMAIN disk.template[1].parts
             /\ disk'.final = disk.final
             /\ self'.workbook = "processed"
       /\ (pc \in AfterCopy /\ pc' = "done" /\ self'.workbook # "processed") =>
             /\ disk.wip # <<>>
             /\ disk'.wip = disk.wip]_vars

\* The import failed on a template without 'Raw Import': the run is over
\* with the error, the WIP file is there and there is no final workbook.
C18_Witness ==
    /\ pc = "done"
    /\ self.workbook = "error: Raw Import sheet not found in template"
    /\ disk.wip = disk.template
    /\ disk.wip # <<>>
    /\ disk.final = <<>>

\* C19: without a template the run ends with the status 'error: missing
\* template', makes no query and makes neither a WIP file nor a final
\* workbook; with a template that lacks the 'Raw Import' sheet the run never
\* reaches the repair, ends with an error status and makes no final
\* workbook.
C19_TemplateErrors ==
    /\ disk.template = <<>> =>
          /\ pc \in {"start", "done"}
          /\ pc = "done" => self.workbook = "error: missing template"
          /\ requests = <<>>
          /\ all_data = <<>>
          /\ disk.wip = <<>>
          /\ disk.final = <<>>
    /\ (disk.template # <<>> /\ "Raw Import" \notin DOMAIN disk.template[1].mapping) =>
          /\ pc \notin {"fix", "finish"}
          /\ pc = "done" =>
                self.workbook \in {"error: Raw Import sheet not found in template",
                                   "error: query failed", "error: exception"}
          /\ disk.final = <<>>

\* A run without a template is over: nothing was asked of the API and the
\* raw export of an earlier run is untouched.
C19_Witness ==
    /\ pc = "done"
    /\ disk.template = <<>>
    /\ self.workbook = "error: missing template"
    /\ requests = <<>>
    /\ disk.raw_export = <<StaleRaw>>

\* C20: the stages of a run follow one another: the raw export is written
\* from the aggregated rows before the WIP file is made, the WIP file is the
\* copy of the template before the import, the import is done before the
\* repair, and the final workbook is made by the repair; the row count the
\* repair gets is the number N of aggregated rows, and the 'Raw Import'
\* sheet of the WIP file then holds data in the rows 2 to N + 1 and in no
\* other row below the header.
C20_StagesInSequence ==
    LET N == Len(aggregated_data)
        data_rows(sheet) ==
            {sheet[i].r : i \in {j \in DOMAIN sheet :
                                   sheet[j].r >= 2 /\ sheet[j].cells # <<>>}}
    IN  /\ pc \in {"start", "connect", "fetch", "export"} =>
              /\ aggregated_data = <<>>
              /\ disk.raw_export \in {<<>>, <<StaleRaw>>}
              /\ disk.wip = <<>> /\ disk.final = <<>>
        /\ pc \in {"start", "connect"} => requests = <<>>
        /\ pc = "copy" =>
              /\ disk.raw_export # <<>>
              /\ Len(disk.raw_export[1]) = IF N = 0 THEN 0 ELSE N + 1
              /\ disk.wip = <<>> /\ disk.final = <<>>
        /\ pc = "import" =>
              /\ disk.wip = disk.template
              /\ num_data_rows = 0
              /\ disk.final = <<>>
        /\ pc \in {"fix", "finish"} =>
              /\ num_data_rows = N
              /\ data_rows(disk.wip[1].parts[disk.wip[1].mapping["Raw Import"]])
                    = 2..(N + 1)
        /\ pc = "fix" => disk.final = <<>>
        /\ pc = "finish" =>
              /\ disk.final # <<>>
              /\ disk.final[1].parts["sheet1.xml"] = disk.wip[1].parts["sheet1.xml"]
              /\ \A name \in {"Calibrated Values", "Bounded Calibrated"} :
                    \A i \in DOMAIN disk.final[1].parts[disk.wip[1].mapping[name]] :
                        disk.final[1].parts[disk.wip[1].mapping[name]][i].r <= N + 1

\* Three aggregated rows were imported into a template whose sheets held six
\* rows, and the repair is about to run with the count 3.
C20_Witness ==
    /\ pc = "fix"
    /\ Len(aggregated_data) = 3
    /\ num_data_rows = 3
    /\ Len(disk.template[1].parts["sheet1.xml"]) = 6
    /\ Len(disk.wip[1].parts["sheet1.xml"]) = 6
    /\ disk.wip[1].parts["sheet1.xml"][5].cells = <<>>

(***************************************************************************)
(* The scheduled loop, the lock and the state file (SpecSched).            *)
(***************************************************************************)
\* The positions of a process whose loop is past its lock acquisition.
PastAcquisition ==
    {"looping", "save_acquire", "save_open", "save_write", "save_replace",
     "save_release", "after_save"}

\* The positions of a process inside _save_state with the lock.
Saving == {"save_open", "save_write", "save_replace", "save_release"}

\* C14: for one lock file at most one scheduled loop is past the lock
\* acquisition at a time; a loop whose acquisition failed has returned
\* without processing or sending; a loop that was stopped no longer holds
\* the lock it took.
C14_OneLoop ==
    /\ Cardinality({p \in Procs : sched.proc[p].pc \in PastAcquisition}) <= 1
    /\ \A p \in Procs :
          /\ sched.proc[p].pc = "returned" => sched.proc[p].event = "none"
          /\ sched.proc[p].pc = "stopped" => sched.lock # acquired(p, "loop")

\* C15: when process_workbook or send_processed_workbook succeeded in a
\* running loop and its save has returned, the state file holds the fields
\* of the instance; an instance constructed where a state file exists has
\* loaded the fields of the file; one constructed without a state file has
\* the defaults.
C15_StatePersisted ==
    \A p \in Procs :
        /\ (sched.proc[p].pc = "after_save" /\ sched.proc[p].event \in {"processed", "sent"})
              => sched.files.state_file = written(sched.proc[p].state, TRUE)
        /\ sched.proc[p].pc = "load_release"
              => sched.files.state_file = written(sched.proc[p].state, TRUE)
        /\ (sched.proc[p].pc = "constructed" /\ sched.proc[p].event # "fresh")
              => sched.proc[p].event = "loaded"
        /\ (sched.proc[p].pc = "constructed" /\ sched.proc[p].event = "fresh")
              => sched.proc[p].state = DefaultState

\* C16: _save_state replaces the state file in one step: the state file is
\* never a partial text, and it changes only at the rename, from the state
\* it held to the whole new state of the instance that saves; this holds
\* through crashes in the middle of a save and through loads by the other
\* process.
C16_AtomicReplace ==
    /\ [](sched.files.state_file # <<>> => sched.files.state_file[1].whole)
    /\ [][sched'.files.state_file # sched.files.state_file
            => \E p \in Procs :
                  /\ sched.proc[p].pc = "save_replace"
                  /\ sched'.files.state_file = written(sched.proc[p].state, TRUE)]_vars

\* A process was killed between the writing of the temporary file and the
\* rename: the temporary file is left with today's state, nobody saves, the
\* state file still holds the earlier state, and the other process has just
\* loaded it.
C16_Witness ==
    /\ sched.files.temp_file # <<>>
    /\ sched.files.temp_file[1].fields.last_processed_date = today_str
    /\ sched.files.state_file = written(EarlierState, TRUE)
    /\ \A p \in Procs : sched.proc[p].pc \notin Saving
    /\ \E p \in Procs :
          /\ sched.proc[p].pc = "load_release"
          /\ sched.proc[p].state = EarlierState

(***************************************************************************)
(* The creation of the anchor row (SpecFix).                               *)
(***************************************************************************)
\* C24: when the 'Sorted Raw' sheet, after its pruning, starts with its
\* header row and has no row 2, the repair leaves a row of index 2 holding
\* cell A2 as the second child of the row container, right after the header
\* row.
C24_AnchorRowSecond ==
    (/\ pc = "processor_fixed"
     /\ "Sorted Raw" \in DOMAIN disk.wip[1].mapping) =>
        LET part == disk.wip[1].mapping["Sorted Raw"]
            pruned == remove_excess_rows(disk.wip[1].parts[part], num_data_rows)
            after == disk.final[1].parts[part]
        IN  (/\ pruned # <<>>
             /\ pruned[1].r = 1
             /\ \A i \in DOMAIN pruned : pruned[i].r # 2) =>
                /\ Len(after) >= 2
                /\ after[2].r = 2
                /\ \E j \in DOMAIN after[2].cells : after[2].cells[j].c = 1

(***************************************************************************)
(* The columns of the raw export (SpecBucket).                             *)
(***************************************************************************)
\* C25: the header of the RAW sheet is time_received followed by the field
\* names of the first aggregated row in ascending lexicographic order, and
\* the sheet has no further column; a data row holds, under each header
\* field, its value of that field, and no cell where it lacks the field: a
\* field the first row lacks is written nowhere.
C25_FirstRowColumns ==
    (pc # "export" /\ aggregated_data # <<>>) =>
        LET out == aggregated_data
            sheet == disk.raw_export[1]
            keys == DOMAIN out[1].readings
            width == Cardinality(keys) + 1
            name(c) == cell_value(sheet, 1, c).s
        IN  /\ max_column(sheet) = width
            /\ cell_value(sheet, 1, 1) = StrVal("time_received")
            /\ {name(c) : c \in 2..width} = keys
            /\ \A c, d \in 2..width :
                  c < d => StrLess(Chars[name(c)], Chars[name(d)], 1)
            /\ \A i \in DOMAIN out : \A c \in 2..width :
                  cell_value(sheet, i + 1, c) =
                     IF name(c) \in DOMAIN out[i].readings
                     THEN NumVal(out[i].readings[name(c)])
                     ELSE NoneVal

\* The first row carries temp_raw only and the second row y_calibrated
\* only: the sheet has the columns time_received and temp_raw, and the
\* second data row holds its time alone.
C25_Witness ==
    /\ pc = "copy"
    /\ Len(aggregated_data) = 2
    /\ DOMAIN aggregated_data[1].readings = {"temp_raw"}
    /\ DOMAIN aggregated_data[2].readings = {"y_calibrated"}
    /\ max_column(disk.raw_export[1]) = 2
    /\ Len(disk.raw_export[1][3].cells) = 1

(***************************************************************************)
(* The state fields across a run of process_workbook (SpecRerun).          *)
(***************************************************************************)
\* The statuses f"error: {e}" of lines 649 and 715.
ErrorStatuses ==
    {"error: missing template", "error: query failed", "error: exception",
     "error: KeyError", "error: Raw Import sheet not found in template"}

\* C26: until process_workbook ends, the state fields are those of the run
\* before; it ends either from the stage after the repair, with the final
\* file written and the WIP file removed, setting the path, the date and the
\* time of this run and the status 'processed', or with a status starting
\* with 'error:' and the path, the date and the time of the run before.
C26_FieldsKeptOnFailure ==
    /\ [](pc # "done" => self = EarlierSelf)
    /\ [][(pc' = "done" /\ pc # "done") =>
            \/ /\ pc = "finish"
               /\ disk.final # <<>>
               /\ disk'.final = disk.final
               /\ disk'.wip = <<>>
               /\ self' = [self EXCEPT !.data = "final_path",
                                       !.last_processed_date = "date_str",
                                       !.last_processed_time = "timestamp",
                                       !.workbook = "processed"]
            \/ /\ self'.workbook \in ErrorStatuses
               /\ self' = [self EXCEPT !.workbook = self'.workbook]]_vars

\* A run on a component with an earlier workbook failed in the repackaging:
\* the status is an error and the path and the date are the earlier ones.
C26_Witness ==
    /\ pc = "done"
    /\ disk.final # <<>>
    /\ disk.wip # <<>>
    /\ self.workbook = "error: exception"
    /\ self.data = "earlier_path"
    /\ self.last_processed_date = "earlier_date"


\* C21: the scheduled loop never retries a failed run on its own.  For each
\* date it starts process_workbook at most once and send_processed_workbook
\* at most once; it starts either only at a wake-up in the scheduled minute,
\* for a date that is not recorded as processed (as sent); so after a failed
\* processing or sending the next attempt is at the scheduled time of the
\* next day.
C21_NoRetry ==
    /\ [](\A d \in 1..MaxDays :
             loop.starts[d].process <= 1 /\ loop.starts[d].send <= 1)
    /\ [][\A d \in 1..MaxDays :
             /\ loop'.starts[d].process > loop.starts[d].process
                   => /\ d = date_of(loop.now)
                      /\ MinuteOf(loop.now) = loop.process_time
                      /\ loop.fields.last_processed_date # <<d>>
             /\ loop'.starts[d].send > loop.starts[d].send
                   => /\ d = date_of(loop.now)
                      /\ MinuteOf(loop.now) = loop.send_time
                      /\ loop.fields.last_sent_date # <<d>>]_vars

\* The processing and the sending of the first day both failed, and the loop
\* woke up again, outside the scheduled minutes, without starting either.
C21_Witness ==
    /\ loop # NoLoop
    /\ loop.pc = "send_check"
    /\ MinuteOf(loop.now) \notin {loop.process_time, loop.send_time}
    /\ loop.starts[1] = [process |-> 1, send |-> 1]
    /\ loop.fields.workbook = "error: exception"
    /\ loop.fields.report \in {"error: exception", "error: no processed workbook"}


\* C27: an email the scheduled loop sends on day D attaches the workbook that
\* the processing for day D produced, never a workbook of an earlier day.
C27_SendsTodaysWorkbook ==
    loop # NoLoop => \A m \in loop.mail : m.path = m.day


\* The values of report that record an error of the sending.
SendErrors == {"error: exception", "error: no processed workbook"}

\* C30: send_processed_workbook sends a mail only when the recorded path
\* exists on disk; last_sent_date, last_sent_time and report = "sent" are
\* set only after send_workbook returned, all three together; on every
\* other way out of it the date and the time are unchanged and report holds
\* an error.
C30_SentOnlyAfterSend ==
    [][/\ loop'.mail # loop.mail
             => /\ workbook_available(loop.fields, loop.files)
                /\ loop'.fields = loop.fields
       /\ (\/ loop'.fields.last_sent_date # loop.fields.last_sent_date
           \/ loop'.fields.last_sent_time # loop.fields.last_sent_time
           \/ loop'.fields.report = "sent" /\ loop.fields.report # "sent")
             => /\ loop.pc = "send_record"
                /\ [day |-> DayOf(loop.now), path |-> loop.fields.data[1]] \in loop.mail
                /\ loop'.fields.last_sent_date = <<date_of(loop.now)>>
                /\ loop'.fields.last_sent_time = <<loop.now>>
                /\ loop'.fields.report = "sent"
       /\ (loop.pc \in {"send_check", "send_call"} /\ loop'.pc = "compute" /\ send_due)
             => /\ loop'.fields.last_sent_date = loop.fields.last_sent_date
                /\ loop'.fields.last_sent_time = loop.fields.last_sent_time
                /\ loop'.fields.report \in SendErrors]_vars

\* The workbook of the first day was sent and recorded, and the sending of
\* the second day failed: the date of the first day is still recorded.
C30_Witness ==
    /\ loop # NoLoop
    /\ loop.pc = "compute"
    /\ loop.starts[1].send = 1
    /\ loop.starts[2].send = 1
    /\ loop.fields.last_sent_date = <<1>>
    /\ loop.fields.report \in SendErrors
    /\ \E m \in loop.mail : m.day = 1


\* C29: a failure of processing, sending, image capture or state saving in a
\* wake-up never ends the scheduled loop, which goes on with the rest of the
\* wake-up and with the next sleep; the loop ends only when it is cancelled.
C29_FailureKeepsLoop ==
    loop # NoLoop =>
       /\ loop.pc = "ended" => loop.cancelled
       /\ loop.failure # "none"
             => loop.pc \in {"process_check", "send_check", "send_call",
                             "send_record", "compute"}

\* The capture of a wake-up failed and the loop is at the test of the
\* process time.
C29_Witness ==
    /\ loop # NoLoop
    /\ loop.failure = "capture"
    /\ loop.pc = "process_check"
    /\ ~loop.cancelled


\* The loop tasks that run and are not being cancelled.
LiveLoops ==
    {t \in Tasks : sched.tasks[t].pc \in {"sleeping", "working"}
                   /\ ~sched.tasks[t].must_cancel}

\* C28: after any sequence of reconfigure calls the instance has exactly one
\* live loop.  No loop task ever returns as 'another instance running'; at
\* most one loop is live at any time; once the newest task has taken its
\* first step it is the live loop, every earlier task has ended cancelled or
\* is marked for it, and where a lock belongs to its lock object the newest
\* loop holds the lock.
C28_OneLiveLoop ==
    /\ \A t \in Tasks : sched.tasks[t].pc # "returned"
    /\ Cardinality(LiveLoops) <= 1
    /\ \A t \in Tasks : t # sched.loop_task /\ sched.tasks[t].pc # "none"
          => sched.tasks[t].pc = "cancelled" \/ sched.tasks[t].must_cancel
    /\ (sched.loop_task # 0 /\ sched.tasks[sched.loop_task].pc # "created")
          => /\ LiveLoops = {sched.loop_task}
             /\ sched.kind = "handle" => sched.lock = acquired(1, sched.loop_task)
    /\ sched.ready = <<>> /\ sched.loop_task # 0
          => /\ LiveLoops = {sched.loop_task}
             /\ \A t \in Tasks : t < sched.loop_task => sched.tasks[t].pc = "cancelled"

\* reconfigure was called while the first loop held the lock of its lock
\* object and worked; the first loop has ended and the second one holds the
\* lock.
C28_Witness ==
    /\ "tasks" \in DOMAIN sched
    /\ sched.kind = "handle"
    /\ sched.loop_task = 2
    /\ sched.tasks[1].pc = "cancelled"
    /\ sched.tasks[2].pc = "sleeping"
    /\ sched.lock = acquired(1, 2)
    /\ sched.ready = <<>>


\* The repairs that have begun and not ended.
Repairing == {o \in Ops : pc[o] \notin {"idle", "done"}}

\* C22: on every exit path of the repair (success, a missing part, a parse
\* error, a write error) no scratch directory is left: once a repair has
\* ended and none is under way, neither temp_excel nor a directory
\* temp_excel_<timestamp> is on disk.
C22_NoScratchLeft ==
    (Repairing = {} /\ \E o \in Ops : pc[o] = "done")
       => \A dir \in DOMAIN disk : disk[dir] = <<>>

\* The scratch directories repair o works in.
scratch_of(o) ==
    {self[o].timestamp}
       \cup (IF pc[o] \in {"mappings_read", "mappings_finally"}
             THEN {temp_excel} ELSE {})

\* C23: two repairs that overlap in time never use the same scratch
\* directory.
C23_DistinctScratch ==
    \A o1 \in Repairing, o2 \in Repairing :
       o1 # o2 => scratch_of(o1) \cap scratch_of(o2) = {}

====
